---------------------------- MODULE Spec2Model ----------------------------
(***************************************************************************)
(* HashLife universe (arucil/hashlife): the interned quadtree node store,  *)
(* the level-2 / level-3 transition tables, set / expand / shrink, the     *)
(* memoized step, the simulate driver, boundary() and write_cells().       *)
(*                                                                         *)
(* A NodeId is the position of the node in the insertion-ordered store     *)
(* (1-based); INVALID_NODE_ID is 0.  A Node is one record shape for both   *)
(* variants: leaf nodes carry four u16 quadrants and results, internal     *)
(* nodes carry four child NodeIds, the result slot and the level.          *)
(***************************************************************************)
EXTENDS Integers, Sequences, FiniteSets, TLC

VARIABLES
  set,          \* Universe.set: IndexSet<Box<Node>>, in insertion order
  root,         \* Universe.root: NodeId
  empty_nodes,  \* Universe.empty_nodes: Vec<NodeId>; entry for level L is empty_nodes[L + 1]
  rule,         \* Universe.rule: [birth, survival]
  pc,           \* position inside Universe::simulate ("idle" between API calls)
  num_gen,      \* simulate's local: generations still to be advanced
  k,            \* simulate's local: exponent of the current step
  hist          \* history of completed/started API calls, with the universe before each
                \* and, for simulate, the steps and clear_results calls made so far

vars == <<set, root, empty_nodes, rule, pc, num_gen, k, hist>>

-----------------------------------------------------------------------------
(* Bounds of the model *)

MaxOps == 2        \* API calls (set / simulate) per behaviour
MaxGen == 3        \* every num_gen up to this one is passed to simulate
MaxK == 3          \* and so are 2 ^ MaxK and 2 ^ (MaxK - 1) + 1

-----------------------------------------------------------------------------
(* u16 arithmetic *)

Pow2 == <<1, 2, 4, 8, 16, 32, 64, 128, 256, 512, 1024, 2048, 4096, 8192,
          16384, 32768, 65536>>

U16 == 65536

Shl(a, n) == (a * Pow2[n + 1]) % U16

Shr(a, n) == a \div Pow2[n + 1]

Bit(a, i) == (a \div Pow2[i + 1]) % 2

\* the value of sixteen bits b[0] (least significant) .. b[15]
FromBits(b) ==
    (((b[0] + 2 * b[1]) + (4 * b[2] + 8 * b[3]))
      + ((16 * b[4] + 32 * b[5]) + (64 * b[6] + 128 * b[7])))
  + (((256 * b[8] + 512 * b[9]) + (1024 * b[10] + 2048 * b[11]))
      + ((4096 * b[12] + 8192 * b[13]) + (16384 * b[14] + 32768 * b[15])))

BitAnd(a, b) ==
  IF a = 0 \/ b = 0 THEN 0
  ELSE FromBits([i \in 0..15 |-> Bit(a, i) * Bit(b, i)])

BitOr(a, b) ==
  IF a = 0 THEN b
  ELSE IF b = 0 THEN a
  ELSE FromBits([i \in 0..15 |-> IF Bit(a, i) = 1 \/ Bit(b, i) = 1 THEN 1 ELSE 0])

BitNot(a) == (U16 - 1) - a

\* u16::count_ones
CountOnes(a) == Cardinality({i \in 0..15 : Bit(a, i) = 1})

\* trailing_zeros of a non-zero value
TrailingZeros(a) == CHOOSE i \in 0..15 : Bit(a, i) = 1 /\ \A j \in 0..(i - 1) : Bit(a, j) = 0

\* number of bits needed to write a (0 for 0)
BitLength(a) == Cardinality({i \in 0..15 : Pow2[i + 1] <= a})

\* The calls of a function body run one after the other: vals are computed,
\* in order, before e is.
InOrder(vals, e) == IF vals = vals THEN e ELSE e

Min2(a, b) == IF a <= b THEN a ELSE b

Max2(a, b) == IF a >= b THEN a ELSE b

-----------------------------------------------------------------------------
(* rule.rs *)

\* a rule with B0: a dead cell with no live neighbour is born
LifeWithB0 == [birth |-> 9, survival |-> 12]

GAME_OF_LIFE == [birth |-> 8, survival |-> 12]

\* masks of the eight neighbours of the four centre cells of a 4x4 square
MaskNW == 60128   \* 0b1110_1010_1110_0000
MaskNE == 30064   \* 0b0111_0101_0111_0000
MaskSW == 3758    \* 0b0000_1110_1010_1110
MaskSE == 1879    \* 0b0000_0111_0101_0111

\* one entry of compute_level2_results(rule): nexts = [birth, survival]
Level2Cell(r, i, self, mask) ==
  Bit(IF Bit(i, self) = 1 THEN r.survival ELSE r.birth,
      CountOnes(BitAnd(i, mask)))

\* the four cells packed into the low four bits
Level2ResultsPacked(r, i) ==
    Level2Cell(r, i, 10, MaskNW) * 8 + Level2Cell(r, i, 9, MaskNE) * 4
  + Level2Cell(r, i, 6, MaskSW) * 2 + Level2Cell(r, i, 5, MaskSE)

compute_level2_results(r, i) ==
    Level2Cell(r, i, 10, MaskNW) * 32 + Level2Cell(r, i, 9, MaskNE) * 16
  + Level2Cell(r, i, 6, MaskSW) * 2 + Level2Cell(r, i, 5, MaskSE)

-----------------------------------------------------------------------------
(* node.rs *)

INVALID_NODE_ID == 0

LeafKey(nw, ne, sw, se) == [leaf |-> TRUE, nw |-> nw, ne |-> ne, sw |-> sw, se |-> se]

InternalKey(nw, ne, sw, se) == [leaf |-> FALSE, nw |-> nw, ne |-> ne, sw |-> sw, se |-> se]

\* the structural key of a stored node (variant + four children / quadrants)
KeyOf(n) == [leaf |-> n.leaf, nw |-> n.nw, ne |-> n.ne, sw |-> n.sw, se |-> n.se]

\* LeafNodeKey::center
center(nw, ne, sw, se) ==
  BitOr(BitOr(BitAnd(Shl(nw, 10), 52224), BitAnd(Shl(ne, 6), 13056)),
        BitOr(BitAnd(Shr(sw, 6), 204), BitAnd(Shr(se, 10), 51)))

\* Node::level
LevelOf(s, id) == IF s[id].leaf THEN 3 ELSE s[id].level

-----------------------------------------------------------------------------
(* universe.rs: the node store *)

\* A universe value: the fields of struct Universe that change, plus the rule.
Uni(s, rt, en, r) == [set |-> s, root |-> rt, empty_nodes |-> en, rule |-> r]

level2_square_from_quadrant(nw, ne, sw, se) ==
  BitOr(BitOr(Shl(nw, 10), Shl(ne, 8)), BitOr(Shl(sw, 2), se))

\* compute_level3_results: the indices key.nw, nn, key.ne, ww, key.center(),
\* ee, key.sw, ss, key.se into level2_results
level2_indices(key) ==
  << key.nw,
     BitOr(BitAnd(Shl(key.nw, 2), 52428), BitAnd(Shr(key.ne, 2), 13107)),
     key.ne,
     BitOr(Shl(key.nw, 8), Shr(key.sw, 8)),
     center(key.nw, key.ne, key.sw, key.se),
     BitOr(Shl(key.ne, 8), Shr(key.se, 8)),
     key.sw,
     BitOr(BitAnd(Shl(key.sw, 2), 52428), BitAnd(Shr(key.se, 2), 13107)),
     key.se >>

\* self.level2_results[i] for each index i of a sequence
level2_results(r, ix) ==
  InOrder(ix, [j \in 1..Len(ix) |-> compute_level2_results(r, ix[j])])

\* compute_level3_results: r0, r1, r2, r3 from n0 .. n8
level2_squares(n) ==
  << level2_square_from_quadrant(n[1], n[2], n[4], n[5]),
     level2_square_from_quadrant(n[2], n[3], n[5], n[6]),
     level2_square_from_quadrant(n[4], n[5], n[7], n[8]),
     level2_square_from_quadrant(n[5], n[6], n[8], n[9]) >>

\* result1 from the corners of r0 .. r3 rather than from their centres
Level3Result1FromCorners(sq) ==
  BitOr(BitOr(BitAnd(sq[1], 52224), BitAnd(Shr(sq[2], 2), 13056)),
        BitOr(BitAnd(Shr(sq[3], 8), 204), BitAnd(Shr(sq[4], 10), 51)))

\* compute_level3_results: result1 from r0 .. r3
level3_result1(sq) ==
  BitOr(BitOr(BitAnd(Shl(sq[1], 5), 52224), BitAnd(Shl(sq[2], 3), 13056)),
        BitOr(BitAnd(Shr(sq[3], 3), 204), BitAnd(Shr(sq[4], 5), 51)))

\* compute_level3_results: result2 from result2_nw .. result2_se
level3_result2(n) == level2_square_from_quadrant(n[1], n[2], n[3], n[4])

\* compute_level3_results: [result1, result2] from r0 .. r3
level3_results(r, sq) ==
  InOrder(sq, << level3_result1(sq), level3_result2(level2_results(r, sq)) >>)

\* Universe::compute_level3_results: <<result1, result2>>
compute_level3_results(r, key) ==
  level3_results(r, level2_squares(level2_results(r, level2_indices(key))))

\* Node::new_leaf
new_leaf(key, results) ==
  [leaf |-> TRUE, nw |-> key.nw, ne |-> key.ne, sw |-> key.sw, se |-> key.se,
   results |-> results, result |-> INVALID_NODE_ID, level |-> 3]

\* Node::new_internal: the level is taken from the nw child only
new_internal(s, key) ==
  [leaf |-> FALSE, nw |-> key.nw, ne |-> key.ne, sw |-> key.sw, se |-> key.se,
   results |-> <<0, 0>>, result |-> INVALID_NODE_ID, level |-> LevelOf(s, key.nw) + 1]

\* a lookup whose key comparison has no arm for internal nodes
LookupLeavesOnly(s, key) == {i \in 1..Len(s) : s[i].leaf /\ KeyOf(s[i]) = key}

\* IndexSet::get with the Equivalent impl of NodeKey: ids of the stored nodes
\* whose variant and four fields equal the key
Lookup(s, key) == {i \in 1..Len(s) : KeyOf(s[i]) = key}

\* find_node: the node in the store for the key, or else the given node,
\* inserted: [u |-> universe afterwards, id |-> the NodeId]
get_or_insert(u, key, node) ==
  LET hit == Lookup(u.set, key) IN
  IF hit # {}
  THEN [u |-> u, id |-> CHOOSE i \in hit : TRUE]
  ELSE [u |-> [u EXCEPT !.set = Append(u.set, node)], id |-> Len(u.set) + 1]

\* an internal node boxed and inserted without looking the key up
FindInternalAlwaysNew(u, key) ==
  [u |-> [u EXCEPT !.set = Append(u.set, new_internal(u.set, key))], id |-> Len(u.set) + 1]

\* Universe::find_node of a NodeKey::Internal
find_internal(u, key) == get_or_insert(u, key, new_internal(u.set, key))

\* a leaf boxed and inserted without looking the key up
FindLeafAlwaysNew(u, key) ==
  [u |-> [u EXCEPT !.set = Append(u.set, new_leaf(key, compute_level3_results(u.rule, key)))],
   id |-> Len(u.set) + 1]

\* Universe::find_node of a NodeKey::Leaf
find_leaf(u, key) == get_or_insert(u, key, new_leaf(key, compute_level3_results(u.rule, key)))

\* Universe::find_node
find_node(u, key) == IF key.leaf THEN find_leaf(u, key) ELSE find_internal(u, key)

\* the NodeId a call returned, appended to those of the calls before it
push_id(ids, f) == [u |-> f.u, ids |-> Append(ids, f.id)]

\* the i-th of a sequence of find_node calls, if there is one
find_next(x, keys, i) ==
  IF i <= Len(keys) THEN push_id(x.ids, find_node(x.u, keys[i])) ELSE x

\* find_node for each key of a sequence (of up to five), one call after the
\* other: [u, ids]
find_nodes(u, keys) ==
  LET x1 == find_next([u |-> u, ids |-> <<>>], keys, 1)
      x2 == find_next(x1, keys, 2)
      x3 == find_next(x2, keys, 3)
      x4 == find_next(x3, keys, 4)
      x5 == find_next(x4, keys, 5)
  IN  InOrder(<<x1.ids, x2.ids, x3.ids, x4.ids>>, x5)

\* self.root = <the node just found>
set_root(f) == [f.u EXCEPT !.root = f.id]

\* Universe::new: uni.root = root; uni.empty_nodes[3] = root
new_root_leaf(f) == [f.u EXCEPT !.root = f.id, !.empty_nodes[4] = f.id]

\* Universe::new
Universe_new(r) ==
  new_root_leaf(find_leaf(Uni(<<>>, INVALID_NODE_ID,
                              <<INVALID_NODE_ID, INVALID_NODE_ID, INVALID_NODE_ID,
                                INVALID_NODE_ID>>, r),
                          LeafKey(0, 0, 0, 0)))

\* the new empty node given itself as its result
PushEmptyNodeOwnResult(f, prev) ==
  [f.u EXCEPT !.set[f.id].result = f.id, !.empty_nodes = Append(f.u.empty_nodes, f.id)]

\* find_empty_node: result.set(prev); self.empty_nodes.push(node)
push_empty_node(f, prev) ==
  [f.u EXCEPT !.set[f.id].result = prev, !.empty_nodes = Append(f.u.empty_nodes, f.id)]

\* find_empty_node: the loop for i in len..=level
RECURSIVE push_empty_nodes(_, _)
push_empty_nodes(u, level) ==
  IF Len(u.empty_nodes) >= level + 1 THEN u
  ELSE LET prev == u.empty_nodes[Len(u.empty_nodes)]
       IN  push_empty_nodes(
             push_empty_node(find_internal(u, InternalKey(prev, prev, prev, prev)), prev), level)

\* find_empty_node: self.empty_nodes[level]
empty_node_at(u, level) == [u |-> u, id |-> u.empty_nodes[level + 1]]

\* the empty node of the level above the one asked for
FindEmptyNodeAbove(u, level) == empty_node_at(push_empty_nodes(u, level + 1), level + 1)

\* Universe::find_empty_node: [u, id]
find_empty_node(u, level) == empty_node_at(push_empty_nodes(u, level), level)

\* keys that put the quadrants of a leaf root into the outer corners
ExpandKeysOutward(rt, empty) ==
  IF rt.leaf
  THEN << LeafKey(rt.nw, 0, 0, 0), LeafKey(0, rt.ne, 0, 0),
          LeafKey(0, 0, rt.sw, 0), LeafKey(0, 0, 0, rt.se) >>
  ELSE << InternalKey(empty, empty, empty, rt.nw), InternalKey(empty, empty, rt.ne, empty),
          InternalKey(empty, rt.sw, empty, empty), InternalKey(rt.se, empty, empty, empty) >>

\* expand: the keys of the new nw, ne, sw, se; rt is the root, empty the empty
\* node one level below it (unused for a leaf root)
expand_keys(rt, empty) ==
  IF rt.leaf
  THEN << LeafKey(0, 0, 0, rt.nw), LeafKey(0, 0, rt.ne, 0),
          LeafKey(0, rt.sw, 0, 0), LeafKey(rt.se, 0, 0, 0) >>
  ELSE << InternalKey(empty, empty, empty, rt.nw), InternalKey(empty, empty, rt.ne, empty),
          InternalKey(empty, rt.sw, empty, empty), InternalKey(rt.se, empty, empty, empty) >>

\* expand: self.root = self.find_node(NodeKey::new_internal(nw, ne, sw, se))
expand_root(fs) ==
  set_root(find_internal(fs.u, InternalKey(fs.ids[1], fs.ids[2], fs.ids[3], fs.ids[4])))

\* expand, after the match on the root has found the empty node e
expand_around(e, rt) == expand_root(find_nodes(e.u, expand_keys(rt, e.id)))

\* Universe::expand
expand(u) ==
  expand_around(IF u.set[u.root].leaf THEN [u |-> u, id |-> INVALID_NODE_ID]
                ELSE find_empty_node(u, u.set[u.root].level - 1),
                u.set[u.root])

\* a mask that counts columns and rows from the low bit
CellMaskFromLowBit(x, y) == Pow2[(x % 4) + 4 * (y % 4) + 1]

\* set_rec, leaf case: 1u16 << (3 - (x & 3)) + 4 * (3 - (y & 3))
cell_mask(x, y) == Pow2[(3 - (x % 4)) + 4 * (3 - (y % 4)) + 1]

\* a bit update that flips the bit of a cell set alive
SetBitToggle(bits, mask, alive) ==
  IF alive /\ BitAnd(bits, mask) = 0 THEN BitOr(bits, mask) ELSE BitAnd(bits, BitNot(mask))

\* set_rec, leaf case: *bits |= mask  or  *bits &= !mask
set_bit(bits, mask, alive) ==
  IF alive THEN BitOr(bits, mask) ELSE BitAnd(bits, BitNot(mask))

\* set_rec: the quadrant (x, y) falls in
quadrant_of(x, y) ==
  IF y < 0 THEN (IF x < 0 THEN "nw" ELSE "ne") ELSE (IF x < 0 THEN "sw" ELSE "se")

\* set_rec, internal case: new_key.<q> = <the child just rebuilt>; find_node(new_key)
set_child(c, n, q) ==
  find_internal(c.u, [InternalKey(n.nw, n.ne, n.sw, n.se) EXCEPT ![q] = c.id])

\* Universe::set_rec: [u, id]; (x, y) relative to the centre of the node
RECURSIVE set_rec(_, _, _, _, _)
set_rec(u, node, x, y, alive) ==
  LET n == u.set[node]
      q == quadrant_of(x, y)
  IN
  IF n.leaf
  THEN find_leaf(u, [LeafKey(n.nw, n.ne, n.sw, n.se)
                      EXCEPT ![q] = set_bit(n[q], cell_mask(x, y), alive)])
  ELSE LET r == Pow2[n.level - 2 + 1]
       IN  set_child(set_rec(u, n[q], IF x < 0 THEN x + r ELSE x - r,
                             IF y < 0 THEN y + r ELSE y - r, alive), n, q)

\* a set that expands once at most
ExpandAtMostOnce(u, x, y) ==
  LET radius == Pow2[LevelOf(u.set, u.root) - 1 + 1] IN
  IF x < -radius \/ x >= radius \/ y < -radius \/ y >= radius THEN expand(u) ELSE u

\* Universe::set, the loop: expand until (x, y) is inside the root
RECURSIVE expand_until(_, _, _)
expand_until(u, x, y) ==
  LET radius == Pow2[LevelOf(u.set, u.root) - 1 + 1] IN
  IF x < -radius \/ x >= radius \/ y < -radius \/ y >= radius
  THEN expand_until(expand(u), x, y)
  ELSE u

\* set: let root = self.set_rec(self.root, x, y, alive); self.root = root
set_in_root(u, x, y, alive) == set_root(set_rec(u, u.root, x, y, alive))

\* Universe::set
Universe_set(u, x, y, alive) == set_in_root(expand_until(u, x, y), x, y, alive)

\* Universe::mem
mem(u) == Len(u.set)

\* a loop that does not look at the ne grandchild of the se child
RECURSIVE ShrinkLoopNoSeNe(_, _)
ShrinkLoopNoSeNe(u, level) ==
  IF level > 4
  THEN LET rt == u.set[u.root]
           nw == u.set[rt.nw]
           ne == u.set[rt.ne]
           sw == u.set[rt.sw]
           se == u.set[rt.se]
           empty == u.empty_nodes[(level - 2) + 1]
       IN  IF /\ nw.nw = empty /\ nw.ne = empty /\ nw.sw = empty
              /\ ne.nw = empty /\ ne.ne = empty /\ ne.se = empty
              /\ sw.nw = empty /\ sw.sw = empty /\ sw.se = empty
              /\ se.sw = empty /\ se.se = empty
           THEN ShrinkLoopNoSeNe(
                  set_root(find_internal(u, InternalKey(nw.se, ne.sw, sw.ne, se.nw))), level - 1)
           ELSE u
  ELSE u

\* Universe::shrink, the loop
RECURSIVE shrink_loop(_, _)
shrink_loop(u, level) ==
  IF level > 4
  THEN LET rt == u.set[u.root]
           nw == u.set[rt.nw]
           ne == u.set[rt.ne]
           sw == u.set[rt.sw]
           se == u.set[rt.se]
           empty == u.empty_nodes[(level - 2) + 1]
       IN  IF /\ nw.nw = empty /\ nw.ne = empty /\ nw.sw = empty
              /\ ne.nw = empty /\ ne.ne = empty /\ ne.se = empty
              /\ sw.nw = empty /\ sw.sw = empty /\ sw.se = empty
              /\ se.ne = empty /\ se.sw = empty /\ se.se = empty
           THEN shrink_loop(set_root(find_internal(u, InternalKey(nw.se, ne.sw, sw.ne, se.nw))),
                            level - 1)
           ELSE u
  ELSE u

\* Universe::shrink
shrink(u) ==
  LET level == LevelOf(u.set, u.root) IN
  IF Len(u.empty_nodes) <= level - 2 THEN u ELSE shrink_loop(u, level)

\* a clear_results that does not spare the levels up to k + 2
ClearResultsUpTo(u, old_k, new_k) ==
  [u EXCEPT !.set =
     [i \in 1..Len(u.set) |->
        LET level == LevelOf(u.set, i) IN
        IF level >= 4 /\ level - 2 <= new_k
        THEN [u.set[i] EXCEPT !.result = INVALID_NODE_ID]
        ELSE u.set[i]]]

\* Universe::clear_results(k, new_k)
clear_results(u, old_k, new_k) ==
  [u EXCEPT !.set =
     [i \in 1..Len(u.set) |->
        LET level == LevelOf(u.set, i) IN
        IF level >= 4 /\ old_k < level - 2 /\ level - 2 <= new_k
        THEN [u.set[i] EXCEPT !.result = INVALID_NODE_ID]
        ELSE u.set[i]]]

\* a store of the result into the nw child of the key, not the result slot
WriteResultIntoChild(f, node) == [u |-> [f.u EXCEPT !.set[node].nw = f.id], id |-> f.id]

\* let result = ...; node.result.set(result); result
set_result(f, node) == [u |-> [f.u EXCEPT !.set[node].result = f.id], id |-> f.id]

\* node_ref(<the leaf found>).unwrap_leaf_ref().results[ix], for each leaf found
results_of(f, ix) ==
  [u |-> f.u, vals |-> [j \in 1..Len(f.ids) |-> f.u.set[f.ids[j]].results[ix + 1]]]

\* results[ix] of the leaf found for each key of a sequence, in order: [u, vals]
leaf_results(u, keys, ix) == results_of(find_nodes(u, keys), ix)

\* an index that takes the two-generation results only for k above 1
QuadResultIxAboveOne(kk) == IF kk > 1 THEN 1 ELSE 0

\* leaf_step: let quad_result_ix = (k > 0) as usize
quad_result_ix_of(kk) == IF kk > 0 THEN 1 ELSE 0

\* leaf_step: the keys of the leaves found for n1, n3, n4, n5, n7
leaf_step_keys(nw, ne, sw, se) ==
  << LeafKey(nw.ne, ne.nw, nw.se, ne.sw),
     LeafKey(nw.sw, nw.se, sw.nw, sw.ne),
     LeafKey(nw.se, ne.sw, sw.ne, se.nw),
     LeafKey(ne.sw, ne.se, se.nw, se.ne),
     LeafKey(sw.ne, se.nw, sw.se, se.sw) >>

\* leaf_step: n0 .. n8, where f holds n1, n3, n4, n5, n7: [u, n]
leaf_step_nine(f, nw, ne, sw, se, ix) ==
  [u |-> f.u,
   n |-> << nw.results[ix + 1], f.vals[1], ne.results[ix + 1],
            f.vals[2], f.vals[3], f.vals[4],
            sw.results[ix + 1], f.vals[5], se.results[ix + 1] >>]

\* leaf_step, k >= 2: the keys of the leaves found for nw, ne, sw, se
leaf_step_quads(n) ==
  << LeafKey(n[1], n[2], n[4], n[5]), LeafKey(n[2], n[3], n[5], n[6]),
     LeafKey(n[4], n[5], n[7], n[8]), LeafKey(n[5], n[6], n[8], n[9]) >>

\* leaf_step, k < 2: nw, ne, sw, se as the centres of the four squares
leaf_step_centers(n) ==
  << center(n[1], n[2], n[4], n[5]), center(n[2], n[3], n[5], n[6]),
     center(n[4], n[5], n[7], n[8]), center(n[5], n[6], n[8], n[9]) >>

\* leaf_step: nw, ne, sw, se of the result: [u, vals]
leaf_step_halves(g, kk) ==
  IF kk >= 2 THEN leaf_results(g.u, leaf_step_quads(g.n), 1)
  ELSE [u |-> g.u, vals |-> leaf_step_centers(g.n)]

\* leaf_step: find_node(new_leaf(nw, ne, sw, se)), stored as the node's result
leaf_step_result(h, node) ==
  set_result(find_leaf(h.u, LeafKey(h.vals[1], h.vals[2], h.vals[3], h.vals[4])), node)

\* leaf_step, once n0 .. n8 are there: the rest of the function
leaf_step_rest(g, kk, node) == InOrder(g.n, leaf_step_result(leaf_step_halves(g, kk), node))

\* Universe::leaf_step: [u, id]
leaf_step(u, node, kk) ==
  LET n  == u.set[node]
      nw == u.set[n.nw]
      ne == u.set[n.ne]
      sw == u.set[n.sw]
      se == u.set[n.se]
      ix == quad_result_ix_of(kk)
  IN  leaf_step_rest(
        leaf_step_nine(leaf_results(u, leaf_step_keys(nw, ne, sw, se), ix),
                       nw, ne, sw, se, ix),
        kk, node)

RECURSIVE step(_, _, _)

\* step: what n0 .. n8 are the steps of, in order: a child of the node, or
\* the node found for a key that straddles two or four children
step_nine(n, nw, ne, sw, se) ==
  << [node |-> n.nw],
     [key |-> InternalKey(nw.ne, ne.nw, nw.se, ne.sw)],
     [node |-> n.ne],
     [key |-> InternalKey(nw.sw, nw.se, sw.nw, sw.ne)],
     [key |-> InternalKey(nw.se, ne.sw, sw.ne, se.nw)],
     [key |-> InternalKey(ne.sw, ne.se, se.nw, se.ne)],
     [node |-> n.sw],
     [key |-> InternalKey(sw.ne, se.nw, sw.se, se.sw)],
     [node |-> n.se] >>

\* self.step(<the node just found>, k)
step_found(f, kk) == step(f.u, f.id, kk)

\* the i-th of a sequence of step calls, if there is one; the node of an
\* entry with a key is found first
step_next(x, todo, i, kk) ==
  IF i <= Len(todo)
  THEN push_id(x.ids, IF "key" \in DOMAIN todo[i]
                      THEN step_found(find_internal(x.u, todo[i].key), kk)
                      ELSE step(x.u, todo[i].node, kk))
  ELSE x

\* self.step(.., k) for each entry of a sequence (of up to nine), one call
\* after the other: [u, ids]
steps(u, todo, kk) ==
  LET x1 == step_next([u |-> u, ids |-> <<>>], todo, 1, kk)
      x2 == step_next(x1, todo, 2, kk)
      x3 == step_next(x2, todo, 3, kk)
      x4 == step_next(x3, todo, 4, kk)
      x5 == step_next(x4, todo, 5, kk)
      x6 == step_next(x5, todo, 6, kk)
      x7 == step_next(x6, todo, 7, kk)
      x8 == step_next(x7, todo, 8, kk)
      x9 == step_next(x8, todo, 9, kk)
  IN  InOrder(<<x1.ids, x2.ids, x3.ids, x4.ids, x5.ids, x6.ids, x7.ids, x8.ids>>, x9)

\* step, k >= level - 2: the keys of r0 .. r3
step_quads(n) ==
  << InternalKey(n[1], n[2], n[4], n[5]), InternalKey(n[2], n[3], n[5], n[6]),
     InternalKey(n[4], n[5], n[7], n[8]), InternalKey(n[5], n[6], n[8], n[9]) >>

\* step, k >= level - 2: nw, ne, sw, se are the steps of r0 .. r3
step_full(r, kk) ==
  steps(r.u, << [node |-> r.ids[1]], [node |-> r.ids[2]],
                [node |-> r.ids[3]], [node |-> r.ids[4]] >>, kk)

\* step, k < level - 2: the keys of the centre squares of n0 .. n8, leaves
\* or internal nodes as n0 is
step_centers(s, n) ==
  LET mk(a, b, c, d) == [leaf |-> s[n[1]].leaf, nw |-> a, ne |-> b, sw |-> c, se |-> d]
  IN  << mk(s[n[1]].se, s[n[2]].sw, s[n[4]].ne, s[n[5]].nw),
         mk(s[n[2]].se, s[n[3]].sw, s[n[5]].ne, s[n[6]].nw),
         mk(s[n[4]].se, s[n[5]].sw, s[n[7]].ne, s[n[8]].nw),
         mk(s[n[5]].se, s[n[6]].sw, s[n[8]].ne, s[n[9]].nw) >>

\* a step without the second pass
StepHalvesPartialOnly(t, kk, level) == find_nodes(t.u, step_centers(t.u.set, t.ids))

\* step: nw, ne, sw, se of the result, from n0 .. n8: [u, ids]
step_halves(t, kk, level) ==
  IF kk >= level - 2
  THEN step_full(find_nodes(t.u, step_quads(t.ids)), kk)
  ELSE find_nodes(t.u, step_centers(t.u.set, t.ids))

\* step: find_node(new_internal(nw, ne, sw, se)), stored as the node's result
step_result(q, node) ==
  set_result(find_internal(q.u, InternalKey(q.ids[1], q.ids[2], q.ids[3], q.ids[4])), node)

\* step, once n0 .. n8 are there: the rest of the function
step_rest(t, kk, level, node) ==
  InOrder(t.ids, step_result(step_halves(t, kk, level), node))

\* Universe::step: [u, id].  Advance 2 ^ min(k, level - 2) generations.
step(u, node, kk) ==
  LET n == u.set[node] IN
  IF n.result # INVALID_NODE_ID THEN [u |-> u, id |-> n.result]
  ELSE IF n.level = 4 THEN leaf_step(u, node, kk)
  ELSE step_rest(steps(u, step_nine(n, u.set[n.nw], u.set[n.ne], u.set[n.sw], u.set[n.se]), kk),
                 kk, n.level, node)

-----------------------------------------------------------------------------
(* universe.rs: boundary() and write_cells() *)

\* i64::MAX / i64::MIN.  The model's integers are 32 bits wide; the two values
\* are only ever compared (min / max), never the operand of an addition,
\* unless a leaf with no live cell reaches the leaf case of boundary_rec.
I64_MAX == 2147483647
I64_MIN == (-I64_MAX) - 1

\* the sentinel with its two halves exchanged
SwappedEmptyBoundary == <<I64_MIN, I64_MIN, I64_MAX, I64_MAX>>

\* const EMPTY_BOUNDARY
EMPTY_BOUNDARY == <<I64_MAX, I64_MAX, I64_MIN, I64_MIN>>

\* a byte range whose upper end is the last set column, not one past it
ByteRangeInclusive(i) ==
  IF i = 0 THEN <<I64_MAX, I64_MIN>>
  ELSE <<(8 - BitLength(i)) - 4, 3 - TrailingZeros(i)>>

\* compute_byte_range: (leading_zeros(i as u8) - 4, 4 - trailing_zeros(i as u8))
BYTE_RANGE(i) ==
  IF i = 0 THEN <<I64_MAX, I64_MIN>>
  ELSE <<(8 - BitLength(i)) - 4, 4 - TrailingZeros(i)>>

Or4(a, b, c, d) == BitOr(BitOr(a, b), BitOr(c, d))

\* Universe::boundary_rec: <<left, top, right, bottom>>
RECURSIVE boundary_rec(_, _, _, _)
boundary_rec(u, node, ox, oy) ==
  LET level == LevelOf(u.set, node)
      n == u.set[node]
  IN
  IF Len(u.empty_nodes) > level /\ node = u.empty_nodes[level + 1]
  THEN EMPTY_BOUNDARY
  ELSE IF n.leaf
  THEN LET w0 == BitOr(n.nw, n.sw)
           w  == BitAnd(Or4(Shr(w0, 8), Shr(w0, 4), w0, Shl(w0, 4)), 240)
           e0 == BitOr(n.ne, n.se)
           e  == BitAnd(Or4(Shr(e0, 12), Shr(e0, 8), Shr(e0, 4), e0), 15)
           row == BitOr(w, e)
           lr == BYTE_RANGE(row)
           n0 == BitOr(n.nw, n.ne)
           nn == Or4(n0, Shr(n0, 1), Shr(n0, 2), Shr(n0, 3))
           s0 == BitOr(n.sw, n.se)
           ss == Or4(s0, Shr(s0, 1), Shr(s0, 2), Shr(s0, 3))
           col == BitOr(Or4(BitAnd(Shr(nn, 5), 128), BitAnd(Shr(nn, 2), 64),
                            BitAnd(Shl(nn, 1), 32), BitAnd(Shl(nn, 4), 16)),
                        Or4(BitAnd(Shr(ss, 9), 8), BitAnd(Shr(ss, 6), 4),
                            BitAnd(Shr(ss, 3), 2), BitAnd(ss, 1)))
           tb == BYTE_RANGE(col)
       IN  <<lr[1] + ox, tb[1] + oy, lr[2] + ox, tb[2] + oy>>
  ELSE LET r == Pow2[level - 2 + 1]
           nw_bound == boundary_rec(u, n.nw, ox - r, oy - r)
           ne_bound == boundary_rec(u, n.ne, ox + r, oy - r)
           sw_bound == boundary_rec(u, n.sw, ox - r, oy + r)
           se_bound == boundary_rec(u, n.se, ox + r, oy + r)
       IN  << Min2(Min2(nw_bound[1], ne_bound[1]), Min2(sw_bound[1], se_bound[1])),
              Min2(Min2(nw_bound[2], ne_bound[2]), Min2(sw_bound[2], se_bound[2])),
              Max2(Max2(nw_bound[3], ne_bound[3]), Max2(sw_bound[3], se_bound[3])),
              Max2(Max2(nw_bound[4], ne_bound[4]), Max2(sw_bound[4], se_bound[4])) >>

\* Universe::boundary
boundary(u) == boundary_rec(u, u.root, 0, 0)

\* Universe::write_cells_rec: the sequence of callback invocations
\* <<nw, ne, sw, se, left, top>>, in call order
RECURSIVE write_cells_rec(_, _, _, _)
write_cells_rec(u, node, ox, oy) ==
  LET level == LevelOf(u.set, node)
      n == u.set[node]
  IN
  IF Len(u.empty_nodes) > level /\ node = u.empty_nodes[level + 1]
  THEN <<>>
  ELSE IF n.leaf
  THEN << <<n.nw, n.ne, n.sw, n.se, ox - 4, oy - 4>> >>
  ELSE LET r == Pow2[level - 2 + 1]
       IN  write_cells_rec(u, n.nw, ox - r, oy - r) \o write_cells_rec(u, n.ne, ox + r, oy - r)
           \o write_cells_rec(u, n.sw, ox - r, oy + r) \o write_cells_rec(u, n.se, ox + r, oy + r)

\* a traversal that passes the centre of a leaf, not its top-left cell
WriteCellsFromCentre(u) == write_cells_rec(u, u.root, 4, 4)

\* Universe::write_cells
write_cells(u) == write_cells_rec(u, u.root, 0, 0)

-----------------------------------------------------------------------------
(* The cells a node denotes, read off the documented layout: a node of     *)
(* level L centred at (ox, oy) covers [ox - 2^(L-1), ox + 2^(L-1)) on both *)
(* axes; bit 15 of a quadrant is its top-left cell, bit 12 its top-right,  *)
(* bit 0 its bottom-right.                                                 *)

\* live cells of a 4x4 quadrant whose top-left cell is (x0, y0)
QuadCells(q, x0, y0) ==
  IF q = 0 THEN {}
  ELSE {<<x0 + 3 - (b % 4), y0 + 3 - (b \div 4)>> : b \in {c \in 0..15 : Bit(q, c) = 1}}

RECURSIVE NodeCells(_, _, _, _)
NodeCells(s, node, ox, oy) ==
  LET n == s[node] IN
  IF n.leaf
  THEN QuadCells(n.nw, ox - 4, oy - 4) \cup QuadCells(n.ne, ox, oy - 4)
       \cup QuadCells(n.sw, ox - 4, oy) \cup QuadCells(n.se, ox, oy)
  ELSE LET r == Pow2[n.level - 2 + 1]
       IN  NodeCells(s, n.nw, ox - r, oy - r) \cup NodeCells(s, n.ne, ox + r, oy - r)
           \cup NodeCells(s, n.sw, ox - r, oy + r) \cup NodeCells(s, n.se, ox + r, oy + r)

\* the live-cell set of a universe
LiveCells(u) == NodeCells(u.set, u.root, 0, 0)

-----------------------------------------------------------------------------
(* The single-generation transition on the unbounded lattice (reference)   *)

Neighbours(c) ==
  {<<c[1] + dx, c[2] + dy>> : dx \in {-1, 0, 1}, dy \in {-1, 0, 1}} \ {c}

Generation(r, cells) ==
  LET cand == cells \cup UNION {Neighbours(c) : c \in cells}
      cnt(c) == Cardinality(Neighbours(c) \cap cells)
  IN  {c \in cand : Bit(IF c \in cells THEN r.survival ELSE r.birth, cnt(c)) = 1}

RECURSIVE Generations(_, _, _)
Generations(r, cells, n) ==
  IF n = 0 THEN cells ELSE Generations(r, Generation(r, cells), n - 1)

-----------------------------------------------------------------------------
(* rle.rs: read.  The body of an RLE text as its tokens <<num, tag>>, up   *)
(* to the terminating '!': tag "b" is a dead run, "$" a row break, any     *)
(* other letter a live run.                                                *)

RECURSIVE set_run(_, _, _, _, _)
set_run(u, x, y, i, num) ==
  InOrder(u.root,
          IF i >= num THEN u ELSE set_run(Universe_set(u, x + i, y, TRUE), x, y, i + 1, num))

RECURSIVE read_body(_, _, _, _)
read_body(u, toks, x, y) ==
  IF u.root = INVALID_NODE_ID \/ toks = <<>> THEN u
  ELSE LET num == Head(toks)[1]
           tag == Head(toks)[2]
       IN  IF tag = "b" THEN read_body(u, Tail(toks), x + num, y)
           ELSE IF tag = "$" THEN read_body(u, Tail(toks), 0, y + num)
           ELSE read_body(set_run(u, x, y, 0, num), Tail(toks), x + num, y)

\* rle::read of a text without a rule in its header
read(toks) == read_body(Universe_new(GAME_OF_LIFE), toks, 0, 0)

\* the patterns a behaviour starts from
Blinker == << <<3, "o">> >>

Glider == << <<1, "b">>, <<1, "o">>, <<1, "$">>, <<2, "b">>, <<1, "o">>, <<1, "$">>,
             <<3, "o">> >>

\* a horizontal and a vertical blinker, sixteen columns apart
Far == << <<17, "b">>, <<1, "o">>, <<1, "$">>, <<3, "o">>, <<14, "b">>, <<1, "o">>,
          <<1, "$">>, <<17, "b">>, <<1, "o">> >>

\* a single live cell
Dot == << <<1, "o">> >>

Patterns == { <<>>, Dot, Blinker, Glider, Far }

\* arguments of the set calls
Coords == { <<4, 1>>, <<-9, -2>> }

-----------------------------------------------------------------------------
(* The state machine *)

U == Uni(set, root, empty_nodes, rule)

Install(u) ==
  /\ set' = u.set
  /\ root' = u.root
  /\ empty_nodes' = u.empty_nodes
  /\ rule' = u.rule

Record(op, x, y, alive, n) ==
  hist' = Append(hist, [op |-> op, x |-> x, y |-> y, alive |-> alive, n |-> n, before |-> U,
                        trace |-> <<>>])

\* the steps and clear_results calls of the simulate call under way, in order
Trace(ev, old_k, new_k) ==
  hist' = [hist EXCEPT ![Len(hist)].trace = Append(@, [ev |-> ev, k |-> old_k, new_k |-> new_k])]

\* the universe a behaviour starts from
Start(u) ==
  /\ set = u.set
  /\ root = u.root
  /\ empty_nodes = u.empty_nodes
  /\ rule = u.rule

Init ==
  \E p \in Patterns :
    /\ Start(read(p))
    /\ pc = "idle"
    /\ num_gen = 0
    /\ k = 0
    /\ hist = <<>>

\* uni.set(x, y, alive)
Set(x, y, alive) ==
  /\ pc = "idle"
  /\ Len(hist) < MaxOps
  /\ Install(Universe_set(U, x, y, alive))
  /\ Record("set", x, y, alive, 0)
  /\ UNCHANGED <<pc, num_gen, k>>

\* usize::trailing_zeros (64 for 0)
trailing_zeros(n) == IF n = 0 THEN 64 ELSE TrailingZeros(n)

\* simulate without the early return for n = 0
SimulateNoEarlyReturn(n) ==
  /\ pc = "idle"
  /\ Len(hist) < MaxOps
  /\ Record("simulate", 0, 0, FALSE, n)
  /\ num_gen' = n
  /\ k' = trailing_zeros(n)
  /\ pc' = "expand"
  /\ UNCHANGED <<set, root, empty_nodes, rule>>

\* uni.simulate(n) up to the head of the loop; n = 0 returns at once
Simulate(n) ==
  /\ pc = "idle"
  /\ Len(hist) < MaxOps
  /\ Record("simulate", 0, 0, FALSE, n)
  /\ IF n = 0
     THEN UNCHANGED <<set, root, empty_nodes, rule, pc, num_gen, k>>
     ELSE /\ num_gen' = n
          /\ k' = trailing_zeros(n)
          /\ pc' = "expand"
          /\ UNCHANGED <<set, root, empty_nodes, rule>>

\* the loop of simulate: preserve enough empty space
RECURSIVE expand_to(_, _)
expand_to(u, level) ==
  IF LevelOf(u.set, u.root) < level THEN expand_to(expand(u), level) ELSE u

\* a loop head that expands once before the while loop
PreserveSpaceOnce(u, kk) == expand_to(expand(u), Max2(4, kk + 3))

\* a loop head that expands three times before the while loop
PreserveSpaceThrice(u, kk) == expand_to(expand(expand(expand(u))), Max2(4, kk + 3))

\* a loop head without the two calls of expand before the while loop
PreserveSpaceWhileOnly(u, kk) == expand_to(u, Max2(4, kk + 3))

\* simulate: self.expand(); self.expand(); while level < 4.max(k + 3) { self.expand() }
preserve_space(u, kk) == expand_to(expand(expand(u)), Max2(4, kk + 3))

\* self.root = self.step(self.root, k)
root_step(u, kk) == set_root(step(u, u.root, kk))

SimExpand ==
  /\ pc = "expand"
  /\ Install(preserve_space(U, k))
  /\ pc' = "step"
  /\ UNCHANGED <<num_gen, k, hist>>

\* a step that clears every 1 bit of num_gen at once
SimStepAllAtOnce ==
  /\ pc = "step"
  /\ num_gen' = 0
  /\ Install(root_step(U, k))
  /\ Trace("step", k, k)
  /\ pc' = "shrink"
  /\ UNCHANGED k

\* num_gen &= num_gen - 1; self.root = self.step(self.root, k)
SimStep ==
  /\ pc = "step"
  /\ num_gen' = BitAnd(num_gen, num_gen - 1)
  /\ Install(root_step(U, k))
  /\ Trace("step", k, k)
  /\ pc' = "shrink"
  /\ UNCHANGED k

\* self.shrink(); if num_gen == 0 { break }
SimShrink ==
  /\ pc = "shrink"
  /\ Install(shrink(U))
  /\ pc' = IF num_gen = 0 THEN "idle" ELSE "clear"
  /\ UNCHANGED <<num_gen, k, hist>>

\* k = num_gen.trailing_zeros(); self.clear_results(old_k, k)
SimClear ==
  /\ pc = "clear"
  /\ k' = trailing_zeros(num_gen)
  /\ Install(clear_results(U, k, trailing_zeros(num_gen)))
  /\ Trace("clear", k, trailing_zeros(num_gen))
  /\ pc' = "expand"
  /\ UNCHANGED num_gen

\* the arguments of the simulate calls: the small ones, one whose second
\* step has a k above 1, so that clear_results clears, and a power of two
SimulateArgs == (0..MaxGen) \cup {Pow2[MaxK] + 1, Pow2[MaxK + 1]}

Next ==
  \/ \E c \in Coords, alive \in BOOLEAN : Set(c[1], c[2], alive)
  \/ \E n \in SimulateArgs : Simulate(n)
  \/ SimExpand
  \/ SimStep
  \/ SimShrink
  \/ SimClear

Spec == Init /\ [][Next]_vars

\* Universe::simulate as one call: the loop above run to its break
RECURSIVE simulate_loop(_, _, _)
simulate_loop(u, n, kk) ==
  LET rest == BitAnd(n, n - 1)
      s == shrink(root_step(preserve_space(u, kk), kk))
  IN  IF rest = 0 THEN s
      ELSE simulate_loop(clear_results(s, kk, trailing_zeros(rest)), rest, trailing_zeros(rest))

Universe_simulate(u, n) == IF n = 0 THEN u ELSE simulate_loop(u, n, trailing_zeros(n))

-----------------------------------------------------------------------------
(* rule.rs: Rule::new, set_birth, set_survival, Display; rle.rs: parse_rule. *)
(* A text is a sequence of one-character strings.  A call that panics      *)
(* gives [panic |-> TRUE]; parse_rule gives kind "some", "none" or "panic". *)

MaxRuleOps == 3    \* calls made on a rule per behaviour
MaxNum == 9        \* largest num passed to set_birth / set_survival

\* Rule::new: Self::default()
Rule_new == [birth |-> 0, survival |-> 0]

\* a set_birth without the check for num == 0
SetBirthAllowsZero(r, num) ==
  IF ~(num < 9) THEN [panic |-> TRUE, rule |-> r]
  ELSE [panic |-> FALSE, rule |-> [r EXCEPT !.birth = BitOr(r.birth, Pow2[num + 1])]]

\* Rule::set_birth
set_birth(r, num) ==
  IF ~(num < 9) THEN [panic |-> TRUE, rule |-> r]
  ELSE IF num = 0 THEN [panic |-> TRUE, rule |-> r]
  ELSE [panic |-> FALSE, rule |-> [r EXCEPT !.birth = BitOr(r.birth, Pow2[num + 1])]]

\* Rule::set_survival
set_survival(r, num) ==
  IF ~(num < 9) THEN [panic |-> TRUE, rule |-> r]
  ELSE [panic |-> FALSE, rule |-> [r EXCEPT !.survival = BitOr(r.survival, Pow2[num + 1])]]

\* the characters '0' .. '9'
DigitChars == <<"0", "1", "2", "3", "4", "5", "6", "7", "8", "9">>

\* write!(f, "{}", n) of a number n >= 0
RECURSIVE Decimal(_)
Decimal(n) ==
  IF n < 10 THEN <<DigitChars[n + 1]>>
  ELSE Append(Decimal(n \div 10), DigitChars[(n % 10) + 1])

\* Display for Rule, one loop: while b != 0 { write trailing_zeros; b &= b - 1 }
RECURSIVE write_bits(_)
write_bits(b) ==
  IF b = 0 THEN <<>> ELSE Decimal(TrailingZeros(b)) \o write_bits(BitAnd(b, b - 1))

\* a rendering without the '/' between the two lists
DisplayNoSlash(r) == <<"B">> \o write_bits(r.birth) \o <<"S">> \o write_bits(r.survival)

\* impl Display for Rule
Display(r) == <<"B">> \o write_bits(r.birth) \o <<"/", "S">> \o write_bits(r.survival)

\* str::split on one character, from position i of the text with cur the
\* part so far
RECURSIVE split_on(_, _, _, _)
split_on(s, sep, i, cur) ==
  IF i > Len(s) THEN <<cur>>
  ELSE IF s[i] = sep THEN <<cur>> \o split_on(s, sep, i + 1, <<>>)
  ELSE split_on(s, sep, i + 1, Append(cur, s[i]))

\* u8::to_ascii_lowercase, on the letters a rule text is tested for
to_ascii_lowercase(c) == IF c = "B" THEN "b" ELSE IF c = "S" THEN "s" ELSE c

\* char::to_digit(10): the digit, or -1 for None
to_digit(c) ==
  IF \E d \in 1..10 : DigitChars[d] = c
  THEN (CHOOSE d \in 1..10 : DigitChars[d] = c) - 1
  ELSE -1

\* parse_rule, one of its two loops, from character i of a part: the rule so
\* far in res.rule; birth tells which setter is called
RECURSIVE parse_digits(_, _, _, _)
parse_digits(res, part, i, birth) ==
  IF res.kind # "some" \/ i > Len(part) THEN res
  ELSE IF to_digit(part[i]) = -1 \/ to_digit(part[i]) > 8 THEN [kind |-> "none"]
  ELSE parse_digits(
         LET done == IF birth THEN set_birth(res.rule, to_digit(part[i]))
                     ELSE set_survival(res.rule, to_digit(part[i]))
         IN  IF done.panic THEN [kind |-> "panic"] ELSE [kind |-> "some", rule |-> done.rule],
         part, i + 1, birth)

\* parse_rule, after the split
parse_parts(r) ==
  IF Len(r) # 2 THEN [kind |-> "none"]
  ELSE IF r[1] = <<>> THEN [kind |-> "panic"]
  ELSE IF to_ascii_lowercase(r[1][1]) # "b" THEN [kind |-> "none"]
  ELSE IF r[2] = <<>> THEN [kind |-> "panic"]
  ELSE IF to_ascii_lowercase(r[2][1]) # "s" THEN [kind |-> "none"]
  ELSE parse_digits(parse_digits([kind |-> "some", rule |-> Rule_new], r[1], 2, TRUE),
                    r[2], 2, FALSE)

\* rle.rs: parse_rule
parse_rule(s) == parse_parts(split_on(s, "/", 1, <<>>))

-----------------------------------------------------------------------------
(* export.rs: write_buffer.  The buffer is a sequence of rows, a row a     *)
(* sequence of bytes, most significant bit leftmost.                        *)

\* div_euclid(8) and rem_euclid(8)
div_euclid8(a) == IF a >= 0 THEN a \div 8 ELSE -((7 - a) \div 8)

rem_euclid8(a) == a - 8 * div_euclid8(a)

\* the eight bytes of one leaf, `bytes` of the callback
leaf_bytes(nw, ne, sw, se) ==
  << BitOr(BitAnd(Shr(nw, 8), 240), BitAnd(Shr(ne, 12), 15)),
     BitOr(BitAnd(Shr(nw, 4), 240), BitAnd(Shr(ne, 8), 15)),
     BitOr(BitAnd(nw, 240), BitAnd(Shr(ne, 4), 15)),
     BitOr(BitAnd(Shl(nw, 4), 240), BitAnd(ne, 15)),
     BitOr(BitAnd(Shr(sw, 8), 240), BitAnd(Shr(se, 12), 15)),
     BitOr(BitAnd(Shr(sw, 4), 240), BitAnd(Shr(se, 8), 15)),
     BitOr(BitAnd(sw, 240), BitAnd(Shr(se, 4), 15)),
     BitOr(BitAnd(Shl(sw, 4), 240), BitAnd(se, 15)) >>

\* u8 >> n and u8 << n
shr_u8(b, n) == b \div Pow2[n + 1]

shl_u8(b, n) == (b * Pow2[n + 1]) % 256

\* row i of one leaf when shift == 0: buffer[y as usize + i][bx0 as usize] = bytes[i]
put_aligned(buf, bytes, i, y, bx0, h, bw) ==
  IF y + i < 0 \/ y + i >= h \/ bx0 < 0 \/ bx0 >= bw THEN [panic |-> TRUE]
  ELSE [panic |-> FALSE, buffer |-> [buf.buffer EXCEPT ![y + i + 1][bx0 + 1] = bytes[i + 1]]]

\* the second store of a row when shift != 0: if bx0 >= 0 { buffer[..][bx0] |= b << 8 - shift }
put_second(buf, b, row, bx0, bw, shift) ==
  IF buf.panic \/ bx0 < 0 THEN buf
  ELSE IF bx0 >= bw THEN [panic |-> TRUE]
  ELSE [panic |-> FALSE,
        buffer |-> [buf.buffer EXCEPT ![row + 1][bx0 + 1] = BitOr(@, shl_u8(b, 8 - shift))]]

\* row i of one leaf when shift != 0
put_shifted(buf, bytes, i, y, bx0, bx1, h, bw, shift) ==
  IF ~(y + i >= 0 /\ y + i < h) THEN buf
  ELSE IF bx1 < 0 \/ bx1 >= bw THEN [panic |-> TRUE]
  ELSE put_second(
         [panic |-> FALSE,
          buffer |-> [buf.buffer EXCEPT ![y + i + 1][bx1 + 1] = BitOr(@, shr_u8(bytes[i + 1], shift))]],
         bytes[i + 1], y + i, bx0, bw, shift)

\* the callback of write_buffer, rows i .. 7 of the leaf c
RECURSIVE put_leaf(_, _, _, _, _, _, _, _)
put_leaf(buf, c, i, left, top, h, bw, shift) ==
  IF buf.panic \/ i >= 8 THEN buf
  ELSE put_leaf(
         IF shift = 0
         THEN put_aligned(buf, leaf_bytes(c[1], c[2], c[3], c[4]), i, c[6] - top,
                          div_euclid8(c[5] - left), h, bw)
         ELSE put_shifted(buf, leaf_bytes(c[1], c[2], c[3], c[4]), i, c[6] - top,
                          div_euclid8(c[5] - left), div_euclid8(c[5] - left + 7), h, bw, shift),
         c, i + 1, left, top, h, bw, shift)

\* the callback invocations j .. of write_cells
RECURSIVE put_leaves(_, _, _, _, _, _, _, _)
put_leaves(buf, w, j, left, top, h, bw, shift) ==
  IF buf.panic \/ j > Len(w) THEN buf
  ELSE put_leaves(put_leaf(buf, w[j], 0, left, top, h, bw, shift), w, j + 1,
                  left, top, h, bw, shift)

\* write_buffer, once the boundary <<left, top, right, bottom>> is known
write_buffer_in(u, b) ==
  IF b[3] <= b[1] THEN [panic |-> TRUE, msg |-> "empty"]
  ELSE put_leaves([panic |-> FALSE,
                   buffer |-> [r \in 1..(b[4] - b[2]) |->
                                 [x \in 1..Shr(b[3] - b[1] + 7, 3) |-> 0]]],
                  write_cells(u), 1, b[1], b[2], b[4] - b[2], Shr(b[3] - b[1] + 7, 3),
                  rem_euclid8(b[1]))

\* export::write_buffer
write_buffer(u) == write_buffer_in(u, boundary(u))

-----------------------------------------------------------------------------
(* algo/src/export.rs: write_buffer, the export helper image::save_image    *)
(* calls.  Universe::level is the level of the root.  A result is either     *)
(* [panic |-> TRUE, msg] or [panic |-> FALSE, buffer].                       *)

\* buffer[row][bx] = b or buffer[row][bx] |= b, bx as usize indexing the row
algo_store(buf, row, bx, bw, b, or) ==
  IF buf.panic THEN buf
  ELSE IF bx < 0 \/ bx >= bw THEN [panic |-> TRUE, msg |-> "index out of bounds"]
  ELSE [panic |-> FALSE,
        buffer |-> [buf.buffer EXCEPT ![row + 1][bx + 1] = IF or THEN BitOr(@, b) ELSE b]]

\* the two parts of a byte shifted the other way round
AlgoRowShiftsSwapped(buf, b, row, bx0, bx1, bw, shift) ==
  IF shift = 0 THEN algo_store(buf, row, bx0, bw, b, FALSE)
  ELSE LET first == IF bx1 < bw THEN algo_store(buf, row, bx1, bw, shr_u8(b, shift), TRUE)
                    ELSE buf
       IN  IF bx0 >= 0 THEN algo_store(first, row, bx0, bw, shl_u8(b, 8 - shift), TRUE)
           ELSE first

\* one row of a leaf, y + i being within 0 .. h - 1: the body of the two loops
algo_row(buf, b, row, bx0, bx1, bw, shift) ==
  IF shift = 0 THEN algo_store(buf, row, bx0, bw, b, FALSE)
  ELSE LET first == IF bx1 < bw THEN algo_store(buf, row, bx1, bw, shl_u8(b, shift), TRUE)
                    ELSE buf
       IN  IF bx0 >= 0 THEN algo_store(first, row, bx0, bw, shr_u8(b, 8 - shift), TRUE)
           ELSE first

\* the callback of write_buffer, rows i .. 7 of the leaf c = <<nw, ne, sw, se, x0, y0>>
RECURSIVE algo_put_leaf(_, _, _, _, _, _, _, _)
algo_put_leaf(buf, c, i, left, top, h, bw, shift) ==
  IF buf.panic \/ i >= 8 THEN buf
  ELSE algo_put_leaf(
         IF c[6] - top + i >= 0 /\ c[6] - top + i < h
         THEN algo_row(buf, leaf_bytes(c[1], c[2], c[3], c[4])[i + 1], c[6] - top + i,
                       div_euclid8(c[5] - left), div_euclid8(c[5] - left + 7), bw, shift)
         ELSE buf,
         c, i + 1, left, top, h, bw, shift)

\* the callback invocations j .. of write_cells
RECURSIVE algo_put_leaves(_, _, _, _, _, _, _, _)
algo_put_leaves(buf, w, j, left, top, h, bw, shift) ==
  IF buf.panic \/ j > Len(w) THEN buf
  ELSE algo_put_leaves(algo_put_leaf(buf, w[j], 0, left, top, h, bw, shift), w, j + 1,
                       left, top, h, bw, shift)

\* let shift = (if level == 3 { left + 4 } else { left }).rem_euclid(8)
algo_shift(u, left) ==
  rem_euclid8(IF LevelOf(u.set, u.root) = 3 THEN left + 4 ELSE left)

\* a buffer of no rows returned for a universe without a live cell
AlgoWriteBufferNoRows(u, b) ==
  IF b[3] <= b[1] THEN [panic |-> FALSE, buffer |-> <<>>]
  ELSE algo_put_leaves([panic |-> FALSE,
                        buffer |-> [r \in 1..(b[4] - b[2]) |->
                                      [x \in 1..Shr(b[3] - b[1] + 7, 3) |-> 0]]],
                       write_cells(u), 1, b[1], b[2], b[4] - b[2], Shr(b[3] - b[1] + 7, 3),
                       algo_shift(u, b[1]))

\* write_buffer, once the boundary <<left, top, right, bottom>> is known
algo_write_buffer_in(u, b) ==
  IF b[3] <= b[1] THEN [panic |-> TRUE, msg |-> "empty"]
  ELSE algo_put_leaves([panic |-> FALSE,
                        buffer |-> [r \in 1..(b[4] - b[2]) |->
                                      [x \in 1..Shr(b[3] - b[1] + 7, 3) |-> 0]]],
                       write_cells(u), 1, b[1], b[2], b[4] - b[2], Shr(b[3] - b[1] + 7, 3),
                       algo_shift(u, b[1]))

\* algo::export::write_buffer
algo_write_buffer(u) == algo_write_buffer_in(u, boundary(u))

-----------------------------------------------------------------------------
(* rle.rs: write.  The output is a text; st is the state of the loop over  *)
(* the rows: unit ("none", "b" dead, "o" alive), num_unit, row_left_bits,   *)
(* num_consec_next_rows (rows) and the output so far (out).  checked tells  *)
(* whether the build panics on integer overflow; in a build that wraps, a   *)
(* negative row_left_bits stands for the wrapped u32.                       *)

\* u8::leading_zeros and u8::leading_ones
leading_zeros(x) == Cardinality({i \in 0..7 : Pow2[i + 1] > x})

leading_ones(x) == leading_zeros(255 - x)

\* s.rfind('\n').unwrap(), as a position from 1
rfind_newline(s) == CHOOSE p \in 1..Len(s) : s[p] = "\n" /\ \A q \in (p + 1)..Len(s) : s[q] # "\n"

\* the line broken only when the run would make it longer than 72
PushWrappedAt72(s, buf) ==
  IF Len(s) - (rfind_newline(s) - 1) + Len(buf) > 73 THEN (s \o <<"\n">>) \o buf ELSE s \o buf

\* RleUnit::write, buf being the text of the run
push_wrapped(s, buf) ==
  IF Len(s) - (rfind_newline(s) - 1) + Len(buf) > 71 THEN (s \o <<"\n">>) \o buf ELSE s \o buf

\* RleUnit::write; c is 'b', 'o' or '$'
RleUnit_write(c, num, s) ==
  push_wrapped(s, IF num = 1 THEN <<c>> ELSE Append(Decimal(num), c))

\* the pending row breaks are written before a run is
flush_rows(st) ==
  IF st.rows > 0 THEN [st EXCEPT !.out = RleUnit_write("$", st.rows, st.out), !.rows = 0]
  ELSE st

\* if Some(new_unit) != unit { .. }; num_unit += num_new_unit
next_unit(st, new_unit, n) ==
  IF new_unit = st.unit THEN [st EXCEPT !.num_unit = @ + n]
  ELSE IF st.unit = "none" THEN [st EXCEPT !.unit = new_unit, !.num_unit = @ + n]
  ELSE [flush_rows(st) EXCEPT !.out = RleUnit_write(st.unit, st.num_unit, flush_rows(st).out),
                              !.unit = new_unit, !.num_unit = n]

\* x <<= num_new_unit, or x = 0
shift_out(x, n) == IF n = 8 THEN 0 ELSE shl_u8(x, n)

\* min of u32 values, b possibly wrapped
min_wrapped(a, b) == IF b < 0 THEN a ELSE Min2(a, b)

\* the while loop over the bits of one byte
RECURSIVE write_byte(_, _, _, _)
write_byte(st, x, left_bits, checked) ==
  IF st.panic \/ left_bits = 0 \/ st.row_left_bits = 0 THEN st
  ELSE IF BitAnd(x, 128) = 0
  THEN write_byte([next_unit(st, "b", min_wrapped(Min2(leading_zeros(x), left_bits), st.row_left_bits))
                     EXCEPT !.row_left_bits =
                       @ - min_wrapped(Min2(leading_zeros(x), left_bits), st.row_left_bits)],
                  shift_out(x, min_wrapped(Min2(leading_zeros(x), left_bits), st.row_left_bits)),
                  left_bits - min_wrapped(Min2(leading_zeros(x), left_bits), st.row_left_bits),
                  checked)
  ELSE IF checked /\ st.row_left_bits >= 0 /\ leading_ones(x) > st.row_left_bits
  THEN [st EXCEPT !.panic = TRUE]
  ELSE write_byte([next_unit(st, "o", leading_ones(x))
                     EXCEPT !.row_left_bits = @ - leading_ones(x)],
                  shift_out(x, leading_ones(x)), left_bits - leading_ones(x), checked)

\* for mut x in row { .. }
RECURSIVE write_bytes(_, _, _, _)
write_bytes(st, row, j, checked) ==
  IF st.panic \/ j > Len(row) THEN st
  ELSE write_bytes(write_byte(st, row[j], 8, checked), row, j + 1, checked)

\* the end of a row
end_row(st, width) ==
  IF st.panic THEN st
  ELSE IF st.unit = "b" /\ st.num_unit = width THEN [st EXCEPT !.rows = @ + 1]
  ELSE IF st.unit = "none" THEN [st EXCEPT !.panic = TRUE]
  ELSE IF st.unit # "b"
  THEN [flush_rows(st) EXCEPT !.out = RleUnit_write(st.unit, st.num_unit, flush_rows(st).out),
                              !.rows = 1]
  ELSE [flush_rows(st) EXCEPT !.rows = 1]

\* for row in data { .. }
RECURSIVE write_rows(_, _, _, _, _)
write_rows(st, data, r, width, checked) ==
  IF st.panic \/ r > Len(data) THEN st
  ELSE write_rows(
         end_row(write_bytes([st EXCEPT !.unit = "none", !.num_unit = 0, !.row_left_bits = width],
                             data[r], 1, checked),
                 width),
         data, r + 1, width, checked)

\* the text after the loop over the rows
write_end(st) ==
  IF st.panic THEN [panic |-> TRUE]
  ELSE [panic |-> FALSE,
        text |-> (IF st.rows > 1 THEN RleUnit_write("$", st.rows - 1, st.out) ELSE st.out)
                 \o <<"!", "\n">>]

\* format!("x = {}, y = {}, rule = {}\n", width, bottom - top, univ.rule)
write_header(width, height, r) ==
  <<"x", " ", "=", " ">> \o Decimal(width) \o <<",", " ", "y", " ", "=", " ">> \o Decimal(height)
  \o <<",", " ", "r", "u", "l", "e", " ", "=", " ">> \o Display(r) \o <<"\n">>

\* write, from the header on; b is the boundary
write_in(u, b, data, checked) ==
  IF data.panic THEN [panic |-> TRUE]
  ELSE write_end(write_rows([panic |-> FALSE, unit |-> "none", num_unit |-> 0,
                             row_left_bits |-> b[3] - b[1], rows |-> 0,
                             out |-> write_header(b[3] - b[1], b[4] - b[2], u.rule)],
                            data.buffer, 1, b[3] - b[1], checked))

\* rle::write; an empty universe ends in the panic of write_buffer, or before
\* it in that of right - left
write(u, checked) == write_in(u, boundary(u), write_buffer(u), checked)

-----------------------------------------------------------------------------
(* rle.rs: read, of a text.  The header line is parsed, then the body is   *)
(* cut into the tokens read_body works on.                                  *)

WhiteSpace == {" ", "\n", "\t", "\r"}

Letters == {"a", "b", "c", "d", "e", "f", "g", "h", "i", "j", "k", "l", "m", "n", "o", "p",
            "q", "r", "s", "t", "u", "v", "w", "x", "y", "z",
            "A", "B", "C", "D", "E", "F", "G", "H", "I", "J", "K", "L", "M", "N", "O", "P",
            "Q", "R", "S", "T", "U", "V", "W", "X", "Y", "Z"}

\* the position of the first character from i on that satisfies no test of
\* the set cs, Len(s) + 1 if there is none
RECURSIVE skip_while(_, _, _)
skip_while(s, i, cs) ==
  IF i > Len(s) \/ s[i] \notin cs THEN i ELSE skip_while(s, i + 1, cs)

\* the position of the first '\n', Len(s) + 1 if there is none
RECURSIVE find_newline(_, _)
find_newline(s, i) == IF i > Len(s) \/ s[i] = "\n" THEN i ELSE find_newline(s, i + 1)

\* the last position from j down that is not white space
RECURSIVE trim_end_at(_, _)
trim_end_at(s, j) == IF j < 1 \/ s[j] \notin WhiteSpace THEN j ELSE trim_end_at(s, j - 1)

\* str::trim
trim(s) == SubSeq(s, skip_while(s, 1, WhiteSpace), trim_end_at(s, Len(s)))

\* the value of the decimal digits i .. of s, after acc
RECURSIVE parse_digits_from(_, _, _)
parse_digits_from(s, i, acc) ==
  IF i > Len(s) THEN acc ELSE parse_digits_from(s, i + 1, 10 * acc + to_digit(s[i]))

\* str::parse::<u32>, -1 for an error; the texts here stay far below 2^32
parse_u32(s) ==
  LET d == IF s # <<>> /\ s[1] = "+" THEN Tail(s) ELSE s
  IN  IF d = <<>> \/ \E i \in 1..Len(d) : to_digit(d[i]) = -1 THEN -1
      ELSE parse_digits_from(d, 1, 0)

\* one `key = value` of the header; hd holds width, height (-1 for None) and rule
read_header_item(hd, w) ==
  LET kv == split_on(w, "=", 1, <<>>) IN
  IF hd.panic THEN hd
  ELSE IF Len(kv) # 2 THEN [hd EXCEPT !.panic = TRUE]
  ELSE IF trim(kv[1]) = <<"x">>
  THEN IF parse_u32(trim(kv[2])) = -1 THEN [hd EXCEPT !.panic = TRUE]
       ELSE [hd EXCEPT !.width = parse_u32(trim(kv[2]))]
  ELSE IF trim(kv[1]) = <<"y">>
  THEN IF parse_u32(trim(kv[2])) = -1 THEN [hd EXCEPT !.panic = TRUE]
       ELSE [hd EXCEPT !.height = parse_u32(trim(kv[2]))]
  ELSE IF trim(kv[1]) = <<"r", "u", "l", "e">>
  THEN IF parse_rule(trim(kv[2])).kind # "some" THEN [hd EXCEPT !.panic = TRUE]
       ELSE [hd EXCEPT !.rule = parse_rule(trim(kv[2])).rule]
  ELSE hd

RECURSIVE read_header_items(_, _, _)
read_header_items(hd, ws, i) ==
  IF hd.panic \/ i > Len(ws) THEN hd
  ELSE read_header_items(read_header_item(hd, trim(ws[i])), ws, i + 1)

\* the header of read: the first line; a missing x or y is a panic, a
\* missing rule is GAME_OF_LIFE
read_header(src) ==
  LET hd == read_header_items([panic |-> FALSE, width |-> -1, height |-> -1,
                               rule |-> GAME_OF_LIFE],
                              split_on(SubSeq(src, 1, find_newline(src, 1) - 1), ",", 1, <<>>), 1)
  IN  IF src = <<>> \/ hd.panic \/ hd.width = -1 \/ hd.height = -1 THEN [panic |-> TRUE]
      ELSE [panic |-> FALSE, rule |-> hd.rule]

\* the loop of read over the body from position i: the tokens up to '!'
RECURSIVE read_tokens(_, _, _)
read_tokens(src, i, toks) ==
  LET a == skip_while(src, i, WhiteSpace)
      e == skip_while(src, a, {DigitChars[d] : d \in 1..10})
  IN  IF a > Len(src) THEN [panic |-> TRUE]
      ELSE IF src[a] = "!" THEN [panic |-> FALSE, toks |-> toks]
      ELSE IF e > Len(src) THEN [panic |-> TRUE]
      ELSE IF src[e] \notin Letters /\ src[e] # "$" THEN [panic |-> TRUE]
      ELSE read_tokens(src, e + 1,
                       Append(toks, <<IF e > a THEN parse_digits_from(SubSeq(src, a, e - 1), 1, 0)
                                      ELSE 1,
                                      src[e]>>))

\* rle::read of a text
read_text(src) ==
  LET hd == read_header(src)
      body == read_tokens(src, find_newline(src, 1), <<>>)
  IN  IF hd.panic \/ body.panic THEN [panic |-> TRUE]
      ELSE [panic |-> FALSE, u |-> read_body(Universe_new(hd.rule), body.toks, 0, 0)]

(* The calls on one Rule value: the rule is in `rule`, the calls made in   *)
(* hist; a panic ends the behaviour with pc = "panic".  The universe      *)
(* variables are not used.                                                 *)

\* B12345678/S012345678, the rule with every bit a setter accepts
FULL_RULE == [birth |-> 510, survival |-> 511]

\* the rules a behaviour starts from
RuleStarts == { Rule_new, GAME_OF_LIFE, FULL_RULE }

RuleInit ==
  /\ rule \in RuleStarts
  /\ pc = "idle"
  /\ hist = <<>>
  /\ set = <<>>
  /\ root = INVALID_NODE_ID
  /\ empty_nodes = <<>>
  /\ num_gen = 0
  /\ k = 0

RuleCall(entry, panic) ==
  /\ hist' = Append(hist, entry)
  /\ pc' = IF panic THEN "panic" ELSE "idle"
  /\ UNCHANGED <<set, root, empty_nodes, num_gen, k>>

\* rule.set_birth(num)
SetBirth(num) ==
  /\ pc = "idle"
  /\ Len(hist) < MaxRuleOps
  /\ rule' = set_birth(rule, num).rule
  /\ RuleCall([op |-> "set_birth", num |-> num, before |-> rule], set_birth(rule, num).panic)

\* rule.set_survival(num)
SetSurvival(num) ==
  /\ pc = "idle"
  /\ Len(hist) < MaxRuleOps
  /\ rule' = set_survival(rule, num).rule
  /\ RuleCall([op |-> "set_survival", num |-> num, before |-> rule],
              set_survival(rule, num).panic)

\* rule.to_string()
Format ==
  /\ pc = "idle"
  /\ Len(hist) < MaxRuleOps
  /\ rule' = rule
  /\ RuleCall([op |-> "to_string", before |-> rule, text |-> Display(rule)], FALSE)

\* parse_rule of the text formatted last
Parse ==
  /\ pc = "idle"
  /\ Len(hist) >= 1
  /\ hist[Len(hist)].op = "to_string"
  /\ rule' = rule
  /\ RuleCall([op |-> "parse_rule", before |-> rule, text |-> hist[Len(hist)].text,
               result |-> parse_rule(hist[Len(hist)].text)],
              parse_rule(hist[Len(hist)].text).kind = "panic")

RuleNext ==
  \/ \E num \in 0..MaxNum : SetBirth(num)
  \/ \E num \in 0..MaxNum : SetSurvival(num)
  \/ Format
  \/ Parse

SpecRule == RuleInit /\ [][RuleNext]_vars

-----------------------------------------------------------------------------
(* Universe::new(rule) builds level2_results from the rule the calls above   *)
(* have made; an entry of the table is then read.                            *)

MaxTableOps == 2   \* the table is built after fewer calls on the rule than this

\* the indices read: no cell, every cell, the two of test_level2_result, each
\* single cell, each single dead cell, and the rows, columns and centre
Level2Indices ==
  {0, 65535, 1732, 50176, 1632, 38505, 61440, 3840, 240, 15, 34952, 17476, 8738, 4369}
    \cup {Pow2[b + 1] : b \in 0..15} \cup {65535 - Pow2[b + 1] : b \in 0..15}

\* uni.level2_results[i] of Universe::new(rule)
Level2(i) ==
  /\ pc = "idle"
  /\ Len(hist) < MaxTableOps
  /\ rule' = rule
  /\ hist' = Append(hist, [op |-> "level2", i |-> i, before |-> rule,
                           result |-> compute_level2_results(rule, i)])
  /\ pc' = "built"
  /\ UNCHANGED <<set, root, empty_nodes, num_gen, k>>

Level2Next ==
  \/ RuleNext
  \/ \E i \in Level2Indices : Level2(i)

SpecLevel2 == RuleInit /\ [][Level2Next]_vars

-----------------------------------------------------------------------------
(* Universe::new(rule) followed by find_node of a leaf key, as               *)
(* test_level3_result1 and test_level3_result2 do.                           *)

\* the quadrants of the leaves interned: none and all cells, the keys of the
\* two tests, single cells at the corners and at the centre of the leaf, rows
\* and columns across the quadrant borders, and unsymmetric patterns
Level3Keys ==
  { LeafKey(0, 0, 0, 0), LeafKey(65535, 65535, 65535, 65535),
    LeafKey(1, 8, 12544, 0), LeafKey(19, 0, 17152, 32768),
    LeafKey(0, 0, 16, 19500), LeafKey(32768, 0, 0, 0), LeafKey(0, 0, 0, 1),
    LeafKey(1, 0, 0, 0), LeafKey(0, 8, 0, 0), LeafKey(0, 0, 4096, 0),
    LeafKey(0, 0, 0, 32768), LeafKey(1, 8, 4096, 32768),
    LeafKey(15, 15, 0, 0), LeafKey(0, 0, 61440, 61440),
    LeafKey(4369, 34952, 4369, 34952), LeafKey(3, 12, 12288, 49152),
    LeafKey(1632, 1632, 1632, 1632), LeafKey(38505, 27030, 1732, 50176),
    LeafKey(65535, 0, 0, 65535), LeafKey(627, 17990, 9764, 58513) }

\* uni.find_node(NodeKey::new_leaf(nw, ne, sw, se)) on Universe::new(rule)
Level3(key) ==
  /\ pc = "idle"
  /\ Len(hist) < MaxTableOps
  /\ hist' = Append(hist, [op |-> "level3", key |-> key, before |-> rule,
                           id |-> find_leaf(Universe_new(rule), key).id])
  /\ Install(find_leaf(Universe_new(rule), key).u)
  /\ pc' = "built"
  /\ UNCHANGED <<num_gen, k>>

Level3Next ==
  \/ RuleNext
  \/ \E key \in Level3Keys : Level3(key)

SpecLevel3 == RuleInit /\ [][Level3Next]_vars

-----------------------------------------------------------------------------
(* rle::write and rle::read among the calls on a universe: one write per  *)
(* behaviour, in a build that checks integer overflow or in one that does  *)
(* not, and then a read of the text it returned.                            *)

\* rle::write(&universe)
RleWrite(checked) ==
  /\ pc = "idle"
  /\ \A h \in 1..Len(hist) : hist[h].op # "write"
  /\ hist' = Append(hist, [op |-> "write", before |-> U, checked |-> checked,
                           out |-> write(U, checked)])
  /\ pc' = IF write(U, checked).panic THEN "panic" ELSE "idle"
  /\ UNCHANGED <<set, root, empty_nodes, rule, num_gen, k>>

\* universe = rle::read(text) of the text written last
RleRead ==
  /\ pc = "idle"
  /\ Len(hist) >= 1
  /\ hist[Len(hist)].op = "write"
  /\ hist' = Append(hist, [op |-> "read", before |-> U, text |-> hist[Len(hist)].out.text])
  /\ IF read_text(hist[Len(hist)].out.text).panic
     THEN pc' = "panic" /\ UNCHANGED <<set, root, empty_nodes, rule>>
     ELSE pc' = "idle" /\ Install(read_text(hist[Len(hist)].out.text).u)
  /\ UNCHANGED <<num_gen, k>>

RleNext ==
  \/ Next
  \/ \E checked \in BOOLEAN : RleWrite(checked)
  \/ RleRead

SpecRle == Init /\ [][RleNext]_vars

-----------------------------------------------------------------------------
(* The calls the tests of universe.rs make on a universe, one at a time:     *)
(* set, expand, let node = uni.step(uni.root, k), and clear_results.  hist   *)
(* holds the calls with their arguments, the universe before and, for step,  *)
(* the NodeId returned.                                                      *)

MaxUnitOps == 2    \* calls made on a universe per behaviour

\* arguments of the set calls: on the west edge of a level-3 root, and outside
UnitCoords == { <<-4, 1>>, <<-9, -2>> }

\* arguments of the clear_results calls (new_k > k)
ClearArgs == { <<0, 1>>, <<0, MaxK - 1>>, <<MaxK - 1, MaxK>> }

UnitCall(entry, u) ==
  /\ pc = "idle"
  /\ Len(hist) < MaxUnitOps
  /\ hist' = Append(hist, entry)
  /\ Install(u)
  /\ UNCHANGED <<pc, num_gen, k>>

\* uni.set(x, y, alive)
UnitSet(x, y, alive) ==
  UnitCall([op |-> "set", x |-> x, y |-> y, alive |-> alive, before |-> U],
           Universe_set(U, x, y, alive))

\* uni.expand()
UnitExpand == UnitCall([op |-> "expand", before |-> U], expand(U))

\* let node = uni.step(uni.root, k), on an internal root
UnitStep(kk) ==
  /\ ~set[root].leaf
  /\ UnitCall([op |-> "step", k |-> kk, before |-> U, id |-> step(U, root, kk).id],
              step(U, root, kk).u)

\* uni.clear_results(k, new_k)
UnitClear(old_k, new_k) ==
  UnitCall([op |-> "clear", k |-> old_k, new_k |-> new_k, before |-> U],
           clear_results(U, old_k, new_k))

UnitNext ==
  \/ \E c \in UnitCoords, alive \in BOOLEAN : UnitSet(c[1], c[2], alive)
  \/ UnitExpand
  \/ \E kk \in 0..MaxK : UnitStep(kk)
  \/ \E a \in ClearArgs : UnitClear(a[1], a[2])

SpecUnit == Init /\ [][UnitNext]_vars

-----------------------------------------------------------------------------
(* write_buffer on a universe built by set calls: image::save_image calls    *)
(* the one of algo/src/export.rs, rle::write the one of src/export.rs.       *)

MaxExportSets == 1   \* set calls made before an export

\* arguments of the set calls made before an export: as leftmost live cell
\* each of them gives left another remainder modulo 8, on a leaf root (x
\* from -4 to 3) and on an internal root; and two calls that clear a cell
ExportSets ==
  { <<-4, 1, TRUE>>, <<-3, -4, TRUE>>, <<-2, 3, TRUE>>, <<-1, -1, TRUE>>,
    <<0, 2, TRUE>>, <<1, -3, TRUE>>, <<2, 0, TRUE>>, <<3, -2, TRUE>>,
    <<-8, 5, TRUE>>, <<-9, -2, TRUE>>, <<-10, 7, TRUE>>, <<-11, -6, TRUE>>,
    <<-12, 0, TRUE>>, <<-13, 4, TRUE>>, <<-14, -9, TRUE>>, <<-15, 1, TRUE>>,
    <<0, 0, FALSE>>, <<-9, -2, FALSE>> }

\* the two crates with a write_buffer
Crates == {"algo", "src"}

\* let buffer = export::write_buffer(uni)
WriteBuffer(crate) ==
  /\ pc = "idle"
  /\ hist' = Append(hist, [op |-> "write_buffer", crate |-> crate, before |-> U,
                           out |-> IF crate = "algo" THEN algo_write_buffer(U)
                                   ELSE write_buffer(U)])
  /\ pc' = IF (IF crate = "algo" THEN algo_write_buffer(U) ELSE write_buffer(U)).panic
           THEN "panic" ELSE "written"
  /\ UNCHANGED <<set, root, empty_nodes, rule, num_gen, k>>

ExportNext ==
  \/ \E c \in ExportSets : Len(hist) < MaxExportSets /\ UnitSet(c[1], c[2], c[3])
  \/ \E crate \in Crates : WriteBuffer(crate)

SpecExport == Init /\ [][ExportNext]_vars

-----------------------------------------------------------------------------
(* rle::write of patterns whose text is longer than a line.                  *)

\* n cells of a row, alternately live and dead, as tokens of an RLE body
AlternateRow(first, n) ==
  [i \in 1..n |-> <<1, IF (i % 2 = 1) = first THEN "o" ELSE "b">>]

\* rle::read of the text of rows 0 .. n - 1 of a chequered pattern, sixteen
\* cells wide, the rows read one after the other
RECURSIVE read_chequered(_)
read_chequered(n) ==
  IF n = 0 THEN Universe_new(GAME_OF_LIFE)
  ELSE read_body(read_chequered(n - 1), AlternateRow(n % 2 = 1, 16), 0, n - 1)

\* the universes read: chequered patterns of 5, 8, 10 and 12 rows, and the
\* small patterns
LongUniverses ==
  { read_chequered(5), read_chequered(8), read_chequered(10), read_chequered(12),
    read(Glider), read(Far) }

LongInit ==
  \E u \in LongUniverses :
    /\ Start(u)
    /\ pc = "idle"
    /\ hist = <<>>
    /\ num_gen = 0
    /\ k = 0

LongNext ==
  \/ \E c \in ExportSets : Len(hist) < MaxExportSets /\ UnitSet(c[1], c[2], c[3])
  \/ \E checked \in BOOLEAN : RleWrite(checked)

SpecLong == LongInit /\ [][LongNext]_vars

-----------------------------------------------------------------------------
(* Properties.  hist[i] is the i-th call made on the universe, with the    *)
(* universe it was made on; a call has returned when pc = "idle".          *)

Idle == pc = "idle"

Last == hist[Len(hist)]

\* the calls i..j of the history are all of kind op
AllOp(i, j, op) == \A h \in i..j : hist[h].op = op

\* C1: on a universe populated only by set calls, one simulate(n) leaves
\* exactly the live cells of n naive generations of the live cells before it
C1_SimulateIsNGenerations ==
  (/\ Idle
   /\ Len(hist) >= 1
   /\ Last.op = "simulate"
   /\ AllOp(1, Len(hist) - 1, "set"))
  => LiveCells(U) = Generations(rule, LiveCells(Last.before), Last.n)

\* C2: simulate(a) followed by simulate(b) leaves the live cells that one
\* simulate(a + b) on the same universe leaves
C2_SimulateComposes ==
  (/\ Idle
   /\ Len(hist) >= 2
   /\ Last.op = "simulate"
   /\ hist[Len(hist) - 1].op = "simulate")
  => LiveCells(U)
       = LiveCells(Universe_simulate(hist[Len(hist) - 1].before,
                                     hist[Len(hist) - 1].n + Last.n))

UniqueKeys == \A i, j \in 1..Len(set) : KeyOf(set[i]) = KeyOf(set[j]) => i = j

\* C3: interning is idempotent: before and after every step the store holds
\* no two nodes with equal keys, and whatever operation runs, find_node
\* afterwards on the key of a node stored before returns that node's id and
\* adds nothing to the store
C3_InterningIdempotent ==
  [][/\ UniqueKeys
     /\ UniqueKeys'
     /\ \A i \in 1..Len(set) :
          find_node(U', KeyOf(set[i])) = [u |-> U', id |-> i]]_vars

\* a step that added nodes to a store already holding leaves and internal nodes
C3_Witness ==
  /\ Len(hist) >= 1
  /\ Len(set) > Len(Last.before.set)
  /\ \E i, j \in 1..Len(Last.before.set) : set[i].leaf /\ ~set[j].leaf

\* the tight box of a non-empty set of cells, right and bottom exclusive
TightBox(cells) ==
  << CHOOSE x \in {c[1] : c \in cells} : \A c \in cells : x <= c[1],
     CHOOSE y \in {c[2] : c \in cells} : \A c \in cells : y <= c[2],
     (CHOOSE x \in {c[1] : c \in cells} : \A c \in cells : x >= c[1]) + 1,
     (CHOOSE y \in {c[2] : c \in cells} : \A c \in cells : y >= c[2]) + 1 >>

\* C4: with at least one live cell, boundary() is the tight box of the live
\* cells: least x, least y, greatest x + 1, greatest y + 1
C4_BoundaryTight ==
  (Idle /\ LiveCells(U) # {}) => boundary(U) = TightBox(LiveCells(U))

\* live cells in more than one leaf, at negative and positive coordinates
C4_Witness ==
  /\ Idle
  /\ Len(write_cells(U)) >= 2
  /\ \E c, d \in LiveCells(U) : c[1] < 0 /\ d[1] > 0 /\ c[2] # d[2]

\* the root is the node find_empty_node registered for its level
RootRegistered ==
  /\ Len(empty_nodes) > LevelOf(set, root)
  /\ root = empty_nodes[LevelOf(set, root) + 1]

\* C5: whenever no cell is live, write_cells invokes its callback zero times
\* and boundary() returns (i64::MAX, i64::MAX, i64::MIN, i64::MIN), whether
\* or not the root is registered in empty_nodes
C5_EmptyUniverse ==
  (Idle /\ LiveCells(U) = {})
    => /\ write_cells(U) = <<>>
       /\ boundary(U) = <<I64_MAX, I64_MAX, I64_MIN, I64_MIN>>

\* after some call no cell is live and the root is an internal node that
\* find_empty_node never registered
C5_Witness ==
  /\ Idle
  /\ Len(hist) >= 1
  /\ LiveCells(U) = {}
  /\ ~set[root].leaf
  /\ ~RootRegistered

\* the live cells after set(x, y, alive) on a universe with the given cells
AfterSet(cells, x, y, alive) ==
  IF alive THEN cells \cup {<<x, y>>} ELSE cells \ {<<x, y>>}

\* C6: set(x, y, alive) makes (x, y) live exactly when alive is true and
\* leaves every other cell as it was, inside or outside the root it is called
\* on, at negative coordinates too
C6_SetFrame ==
  (Idle /\ Len(hist) >= 1 /\ Last.op = "set")
    => LiveCells(U) = AfterSet(LiveCells(Last.before), Last.x, Last.y, Last.alive)

\* the half side of the root of a universe
Radius(u) == Pow2[LevelOf(u.set, u.root) - 1 + 1]

\* a set at negative coordinates outside the root, on a universe with live cells
C6_Witness ==
  /\ Idle
  /\ Len(hist) >= 1
  /\ Last.op = "set"
  /\ Last.alive
  /\ Last.x < -Radius(Last.before)
  /\ Last.y < 0
  /\ LiveCells(Last.before) # {}

\* the last two calls are set(x, y, TRUE) with the same x and y
SetTwice ==
  /\ Len(hist) >= 2
  /\ Last.op = "set" /\ Last.alive
  /\ hist[Len(hist) - 1].op = "set" /\ hist[Len(hist) - 1].alive
  /\ Last.x = hist[Len(hist) - 1].x
  /\ Last.y = hist[Len(hist) - 1].y

\* the last call is set(x, y, FALSE) on a cell that was dead
ClearDead ==
  /\ Len(hist) >= 1
  /\ Last.op = "set" /\ ~Last.alive
  /\ <<Last.x, Last.y>> \notin LiveCells(Last.before)

\* C7: set(x, y, true) a second time leaves the live cells the first call
\* left, and set(x, y, false) on a dead cell leaves the live cells unchanged
C7_SetIdempotent ==
  /\ (Idle /\ SetTwice) => LiveCells(U) = LiveCells(Last.before)
  /\ (Idle /\ ClearDead) => LiveCells(U) = LiveCells(Last.before)

\* set(x, y, true) twice on a cell that was dead, next to other live cells
C7_Witness ==
  /\ Idle
  /\ SetTwice
  /\ <<Last.x, Last.y>> \notin LiveCells(hist[Len(hist) - 1].before)
  /\ LiveCells(hist[Len(hist) - 1].before) # {}

\* the positions of the leaves in the tree under a node centred at (ox, oy):
\* <<leaf, x, y>> with (x, y) the centre of the leaf
RECURSIVE LeafPositions(_, _, _, _)
LeafPositions(s, node, ox, oy) ==
  LET n == s[node] IN
  IF n.leaf THEN {<<node, ox, oy>>}
  ELSE LET r == Pow2[n.level - 2 + 1]
       IN  LeafPositions(s, n.nw, ox - r, oy - r) \cup LeafPositions(s, n.ne, ox + r, oy - r)
           \cup LeafPositions(s, n.sw, ox - r, oy + r) \cup LeafPositions(s, n.se, ox + r, oy + r)

\* the positions of the leaves with a live cell
NonEmptyLeaves(u) ==
  {p \in LeafPositions(u.set, u.root, 0, 0) :
     LET n == u.set[p[1]] IN n.nw # 0 \/ n.ne # 0 \/ n.sw # 0 \/ n.se # 0}

\* what the callback is to be given for a leaf position: the four quadrants
\* and the top-left cell of the 8 x 8 square centred at (x, y)
Emitted(u, p) ==
  LET n == u.set[p[1]] IN <<n.nw, n.ne, n.sw, n.se, p[2] - 4, p[3] - 4>>

\* the live cells one callback invocation stands for
Decode(c) ==
  QuadCells(c[1], c[5], c[6]) \cup QuadCells(c[2], c[5] + 4, c[6])
  \cup QuadCells(c[3], c[5], c[6] + 4) \cup QuadCells(c[4], c[5] + 4, c[6] + 4)

\* set(x, y, true) for every cell of a set, one call after the other
RECURSIVE SetAll(_, _)
SetAll(u, cells) ==
  IF u.root = INVALID_NODE_ID \/ cells = {} THEN u
  ELSE LET c == CHOOSE c \in cells : TRUE
       IN  SetAll(Universe_set(u, c[1], c[2], TRUE), cells \ {c})

\* the universe rebuilt from the callback invocations w[i], w[i + 1], ..
RECURSIVE Replay(_, _, _)
Replay(u, w, i) ==
  IF u.root = INVALID_NODE_ID \/ i > Len(w) THEN u
  ELSE Replay(SetAll(u, Decode(w[i])), w, i + 1)

\* the round trip through write_cells and set gives the same live cells and
\* the same boundary
RoundTrip(u, v) == LiveCells(v) = LiveCells(u) /\ boundary(v) = boundary(u)

\* C8: write_cells invokes the callback exactly once for each position of a
\* leaf with a live cell, with the leaf's four quadrants and the coordinates
\* of its top-left cell; setting every emitted live cell in a new universe
\* gives the same live cells and the same boundary()
C8_WriteCellsRoundTrip ==
  Idle =>
    /\ {write_cells(U)[i] : i \in 1..Len(write_cells(U))}
         = {Emitted(U, p) : p \in NonEmptyLeaves(U)}
    /\ Len(write_cells(U)) = Cardinality(NonEmptyLeaves(U))
    /\ RoundTrip(U, Replay(Universe_new(rule), write_cells(U), 1))

\* after a call: live cells in two leaves or more, and a leaf without any
C8_Witness ==
  /\ Idle
  /\ Len(hist) >= 1
  /\ Len(write_cells(U)) >= 2
  /\ Cardinality(LeafPositions(set, root, 0, 0)) > Len(write_cells(U))

\* C9: simulate(0) returns at once and leaves the root, the node store with
\* every cached result, and empty_nodes as they were
C9_SimulateZeroNoOp ==
  (Len(hist) >= 1 /\ Last.op = "simulate" /\ Last.n = 0)
    => (Idle /\ U = Last.before)

\* simulate(0) on a universe with live cells and results cached by an earlier
\* simulate call
C9_Witness ==
  /\ Len(hist) >= 2
  /\ Last.op = "simulate" /\ Last.n = 0
  /\ hist[Len(hist) - 1].op = "simulate" /\ hist[Len(hist) - 1].n > 0
  /\ LiveCells(U) # {}
  /\ \E i \in 1..Len(set) : ~set[i].leaf /\ set[i].result # INVALID_NODE_ID

\* the calls from the i-th on are all simulate(1)
OnesFrom(i) == \A h \in i..Len(hist) : hist[h].op = "simulate" /\ hist[h].n = 1

\* C10: m successive calls of simulate(1) advance the universe they are made
\* on by exactly m generations
C10_SimulateOneByOne ==
  Idle =>
    \A i \in 1..Len(hist) :
      OnesFrom(i) =>
        LiveCells(U) = Generations(rule, LiveCells(hist[i].before), Len(hist) - i + 1)

\* no cell of the node is live
RECURSIVE Dead(_, _)
Dead(s, node) ==
  LET n == s[node] IN
  IF n.leaf THEN n.nw = 0 /\ n.ne = 0 /\ n.sw = 0 /\ n.se = 0
  ELSE Dead(s, n.nw) /\ Dead(s, n.ne) /\ Dead(s, n.sw) /\ Dead(s, n.se)

\* simulate(n), n >= 1, has returned, and the universe it was called on had
\* only all-dead nodes in its store
EmptySimulated ==
  /\ Idle
  /\ Len(hist) >= 1
  /\ Last.op = "simulate"
  /\ Last.n >= 1
  /\ \A i \in 1..Len(Last.before.set) : Dead(Last.before.set, i)

\* the store holds at most one all-dead node of each level
OneDeadPerLevel ==
  \A i, j \in 1..Len(set) :
    (Dead(set, i) /\ Dead(set, j) /\ set[i].level = set[j].level) => i = j

\* the largest k a call simulate(n) steps with: the position of the top bit of n
LargestK(n) == BitLength(n) - 1

\* C11 as stated: after simulate(n), n >= 1, on an empty universe boundary()
\* is the empty sentinel and the store holds only all-dead nodes, at most one
\* per level, of levels 3 to max(5, k + 3) for the largest k stepped
C11_EmptyChainAsStated ==
  EmptySimulated =>
    /\ boundary(U) = <<I64_MAX, I64_MAX, I64_MIN, I64_MIN>>
    /\ \A i \in 1..Len(set) : Dead(set, i)
    /\ OneDeadPerLevel
    /\ \A i \in 1..Len(set) :
         3 <= set[i].level /\ set[i].level <= Max2(5, LargestK(Last.n) + 3)

\* C11, amended: after simulate(n), n >= 1, on an empty universe boundary()
\* is the empty sentinel and the store holds only all-dead nodes, at most one
\* per level; the levels the call adds are at most the root level before the
\* call plus one per iteration (1 bit of n) plus one, or k + 3 for the largest
\* k stepped if that is more
C11_EmptyChain ==
  EmptySimulated =>
    /\ boundary(U) = <<I64_MAX, I64_MAX, I64_MIN, I64_MIN>>
    /\ \A i \in 1..Len(set) : Dead(set, i)
    /\ OneDeadPerLevel
    /\ \A i \in (Len(Last.before.set) + 1)..Len(set) :
         set[i].level <= Max2(LevelOf(Last.before.set, Last.before.root) + CountOnes(Last.n) + 1,
                              LargestK(Last.n) + 3)

\* simulate(2 ^ k) with k + 3 above 5 on an empty universe, which added nodes
C11_Witness ==
  /\ EmptySimulated
  /\ LargestK(Last.n) + 3 > 5
  /\ Len(set) > Len(Last.before.set)

\* a node without its result slot
Immutable(n) == [n EXCEPT !.result = INVALID_NODE_ID]

\* C12: no step removes or restructures a node: every stored node keeps its
\* variant, level and children or quadrants (only its result slot may change),
\* the root handles obtained before keep denoting the live cells they
\* denoted, and mem() does not decrease
C12_NodesImmutable ==
  [][/\ mem(U') >= mem(U)
     /\ \A i \in 1..Len(set) : Immutable(set'[i]) = Immutable(set[i])
     /\ NodeCells(set', root, 0, 0) = LiveCells(U)
     /\ \A h \in 1..Len(hist) :
          NodeCells(set', hist[h].before.root, 0, 0) = LiveCells(hist[h].before)]_vars

\* two calls have replaced the root, added nodes and changed the result slot
\* of a node that was there before
C12_Witness ==
  /\ Idle
  /\ Len(hist) >= 2
  /\ root # hist[1].before.root
  /\ hist[2].before.root # hist[1].before.root
  /\ LiveCells(hist[1].before) # {}
  /\ mem(U) > mem(hist[1].before)
  /\ \E i \in 1..mem(hist[1].before) : set[i].result # hist[1].before.set[i].result

\* the level of the root of a universe
RootLevel(u) == LevelOf(u.set, u.root)

\* C13: the root has level 3 or more in every state; shrink returns a root of
\* level 3 or 4 unchanged and never makes a root of a level below 4; after
\* simulate(n), n >= 1, the root is an internal node of level 4 or more
C13_RootLevel ==
  /\ RootLevel(U) >= 3
  /\ RootLevel(U) <= 4 => shrink(U) = U
  /\ RootLevel(U) >= 4 => RootLevel(shrink(U)) >= 4
  /\ (Idle /\ Len(hist) >= 1 /\ Last.op = "simulate" /\ Last.n >= 1)
       => (~set[root].leaf /\ RootLevel(U) >= 4)

\* simulate is about to shrink a root with live cells, and shrink takes it
\* down to level 4
C13_Witness ==
  /\ pc = "shrink"
  /\ LiveCells(U) # {}
  /\ RootLevel(U) > 4
  /\ RootLevel(shrink(U)) = 4


\* the bit i of mask after a call that sets bit num of the mask `before`
SetsOnly(mask, before, num) ==
  \A i \in 0..15 : Bit(mask, i) = (IF i = num THEN 1 ELSE Bit(before, i))

\* C14: set_birth(0) is rejected and leaves the rule as it was, so bit 0 of
\* birth is never set; set_birth(k) and set_survival(k) with k > 8 are
\* rejected; an accepted call sets exactly bit k of its own mask, keeps the
\* other bits of that mask and leaves the other mask alone
C14_SettersGuarded ==
  /\ Bit(rule.birth, 0) = 0
  /\ (Len(hist) >= 1 /\ Last.op = "set_birth") =>
       IF Last.num = 0 \/ Last.num > 8
       THEN pc = "panic" /\ rule = Last.before
       ELSE /\ pc = "idle"
            /\ SetsOnly(rule.birth, Last.before.birth, Last.num)
            /\ rule.survival = Last.before.survival
  /\ (Len(hist) >= 1 /\ Last.op = "set_survival") =>
       IF Last.num > 8
       THEN pc = "panic" /\ rule = Last.before
       ELSE /\ pc = "idle"
            /\ SetsOnly(rule.survival, Last.before.survival, Last.num)
            /\ rule.birth = Last.before.birth

C14_Witness ==
  /\ Len(hist) = 3
  /\ hist[1].op = "set_birth" /\ hist[1].num = 3
  /\ hist[2].op = "set_survival" /\ hist[2].num = 0
  /\ Last.op = "set_birth" /\ Last.num = 0
  /\ pc = "panic"
  /\ rule = [birth |-> 8, survival |-> 1]

\* the characters i..j of text are digits 0..8 in strictly ascending order
AscendingDigits(text, i, j) ==
  /\ \A p \in i..j : to_digit(text[p]) \in 0..8
  /\ \A p \in i..(j - 1) : to_digit(text[p]) < to_digit(text[p + 1])

\* the mask with exactly the bits named by the digits i..j of text
MaskOfDigits(text, i, j) ==
  FromBits([b \in 0..15 |-> IF \E p \in i..j : to_digit(text[p]) = b THEN 1 ELSE 0])

\* C15: the text of a rule (none has B0) is B<digits>/S<digits>, each digit
\* list strictly ascending, so without repeats, and naming exactly the bits
\* of its mask; parse_rule of that text gives a rule with the same birth and
\* survival masks
C15_FormatParseIdentity ==
  /\ (Len(hist) >= 1 /\ Last.op = "to_string") =>
       \E sl \in 2..(Len(Last.text) - 1) :
         /\ Last.text[1] = "B" /\ Last.text[sl] = "/" /\ Last.text[sl + 1] = "S"
         /\ AscendingDigits(Last.text, 2, sl - 1)
         /\ AscendingDigits(Last.text, sl + 2, Len(Last.text))
         /\ MaskOfDigits(Last.text, 2, sl - 1) = Last.before.birth
         /\ MaskOfDigits(Last.text, sl + 2, Len(Last.text)) = Last.before.survival
  /\ (Len(hist) >= 1 /\ Last.op = "parse_rule") =>
       /\ Last.result.kind = "some"
       /\ Last.result.rule.birth = Last.before.birth
       /\ Last.result.rule.survival = Last.before.survival

C15_Witness ==
  /\ Len(hist) = 4
  /\ hist[1].op = "set_birth" /\ hist[1].num = 6
  /\ hist[2].op = "set_survival" /\ hist[2].num = 0
  /\ Last.op = "parse_rule"
  /\ Last.text = <<"B", "3", "6", "/", "S", "0", "2", "3">>
  /\ Last.result = [kind |-> "some", rule |-> [birth |-> 72, survival |-> 13]]

\* the text starts with the header fields x = w, y = h
HeaderReports(text, w, h) ==
  LET pre == <<"x", " ", "=", " ">> \o Decimal(w) \o <<",", " ", "y", " ", "=", " ">>
             \o Decimal(h) \o <<",">>
  IN  Len(text) >= Len(pre) /\ SubSeq(text, 1, Len(pre)) = pre

\* the cells moved so that (left, top) becomes (0, 0)
Translated(cells, left, top) == {<<c[1] - left, c[2] - top>> : c \in cells}

\* C16: for a universe with a live cell, rle::write returns a text whose
\* header reports x = right - left and y = bottom - top, and rle::read of
\* that text has exactly the live cells of the universe, moved so that the
\* boundary's (left, top) is (0, 0)
C16_WriteReadRoundTrip ==
  /\ (Len(hist) >= 1 /\ Last.op = "write" /\ LiveCells(Last.before) # {}) =>
       /\ ~Last.out.panic
       /\ HeaderReports(Last.out.text, boundary(Last.before)[3] - boundary(Last.before)[1],
                        boundary(Last.before)[4] - boundary(Last.before)[2])
  /\ (Len(hist) >= 2 /\ Last.op = "read" /\ LiveCells(Last.before) # {}) =>
       /\ pc = "idle"
       /\ LiveCells(U) = Translated(LiveCells(Last.before), boundary(Last.before)[1],
                                    boundary(Last.before)[2])

\* the cells of the centred half-side square of a node after t generations
\* of the node's cells; for t <= 2 ^ (level - 2) no cell outside the node
\* reaches that square
CentreAfter(u, node, t) ==
  LET h == Pow2[LevelOf(u.set, node) - 2 + 1]
  IN  {c \in Generations(u.rule, NodeCells(u.set, node, 0, 0), t) :
         -h <= c[1] /\ c[1] < h /\ -h <= c[2] /\ c[2] < h}

\* the result slot of an internal node holds what step(node, kk) is to return
CacheRight(u, node, kk) ==
  NodeCells(u.set, u.set[node].result, 0, 0)
    = CentreAfter(u, node, Pow2[Min2(kk, LevelOf(u.set, node) - 2) + 1])

\* C17: when simulate calls step(root, k) and the root has a cached result,
\* which step then returns, that result is the centred half-size square of
\* the root after 2 ^ min(k, level - 2) generations
C17_CachedResultMatchesK ==
  (pc = "step" /\ set[root].result # INVALID_NODE_ID) => CacheRight(U, root, k)

\* C18: every internal node with a cached result holds as result the
\* centred half-side square of the node after exactly 2 ^ (level - 2)
\* generations
C18_ResultIsFullStep ==
  \A i \in 1..Len(set) :
    (~set[i].leaf /\ set[i].result # INVALID_NODE_ID) =>
      NodeCells(set, set[i].result, 0, 0) = CentreAfter(U, i, Pow2[set[i].level - 2 + 1])

\* C19: for every level L >= 4 with an entry in empty_nodes, the cached
\* result of empty_nodes[L] is empty_nodes[L - 1], in every state, those
\* between two steps of one simulate call included
C19_EmptyNodeResults ==
  \A L \in 4..(Len(empty_nodes) - 1) :
    set[empty_nodes[L + 1]].result = empty_nodes[L]

\* step(node, kk) returns the all-dead node one level below node: the entry
\* of empty_nodes for that level when there is one
StepsToDead(u, node, kk) ==
  LET r == step(u, node, kk)
      L == LevelOf(u.set, node)
  IN  /\ Dead(r.u.set, r.id)
      /\ LevelOf(r.u.set, r.id) = L - 1
      /\ Len(r.u.empty_nodes) > L - 1 => r.id = r.u.empty_nodes[L]

\* C20: step on an all-dead internal node of level L returns the all-dead
\* node of level L - 1, for every k, whatever the node's result slot holds
C20_StepOfDeadNode ==
  \A i \in 1..Len(set) :
    (~set[i].leaf /\ Dead(set, i)) => \A kk \in 0..MaxK : StepsToDead(U, i, kk)

\* a registered empty node whose result was cleared, an all-dead node that
\* expand interned and no step has reached, and one with a cached result
C20_Witness ==
  /\ Len(empty_nodes) > 4
  /\ set[empty_nodes[5]].result = INVALID_NODE_ID
  /\ \A kk \in 0..MaxK : StepsToDead(U, empty_nodes[5], kk)
  /\ \E i \in 1..Len(set) :
       /\ ~set[i].leaf /\ Dead(set, i) /\ set[i].result # INVALID_NODE_ID
       /\ \A kk \in 0..MaxK : StepsToDead(U, i, kk)
  /\ \E i \in 1..Len(set) :
       /\ ~set[i].leaf /\ Dead(set, i) /\ set[i].result = INVALID_NODE_ID
       /\ \A L \in 1..Len(empty_nodes) : empty_nodes[L] # i
       /\ \A kk \in 0..MaxK : StepsToDead(U, i, kk)

\* a step of the loop of simulate: control moves on.  Each position of the
\* loop has its step (SimExpand, SimStep, SimShrink, SimClear have no guard
\* but pc), so such a step is possible whenever a call is under way.
SimAdvances == pc # "idle" /\ pc' \in {"idle", "expand", "step", "shrink", "clear"}

\* simulate is sequential code: once called it keeps running
SpecFair == Spec /\ WF_pc(SimAdvances)

\* the positions of the 1 bits of n
SetBits(n) == {b \in 0..15 : Bit(n, b) = 1}

\* a trace starts with a step and alternates steps and clear_results calls;
\* each clear_results call has the k of the step before it as its first and
\* the k of the step after it, a larger one, as its second argument
Alternates(t) ==
  \A i \in 1..Len(t) :
    IF i % 2 = 1 THEN t[i].ev = "step"
    ELSE /\ t[i].ev = "clear"
         /\ t[i].k = t[i - 1].k
         /\ i < Len(t) => (t[i].new_k = t[i + 1].k /\ t[i].k < t[i + 1].k)

\* the trace of a whole call simulate(n): one step per 1 bit of n, the k of
\* the steps being the positions of the 1 bits, and it ends with a step
TraceOf(n, t) ==
  /\ Alternates(t)
  /\ Len(t) = 2 * CountOnes(n) - 1
  /\ {t[i].k : i \in {j \in 1..Len(t) : j % 2 = 1}} = SetBits(n)

\* C23: simulate(n), n >= 1, returns, and has then made exactly popcount(n)
\* root steps, with the positions of the 1 bits of n as their k in strictly
\* increasing order (so the 2 ^ k sum to n), and exactly one clear_results
\* (k_old, k_new) between two consecutive steps, none before the first step
\* and none after the last
C23_SimulateSteps ==
  /\ []((Len(hist) >= 1 /\ Last.op = "simulate" /\ Last.n >= 1) =>
          /\ Alternates(Last.trace)
          /\ Idle => TraceOf(Last.n, Last.trace))
  /\ \A i \in 1..MaxOps :
       (Len(hist) = i /\ pc = "expand" /\ hist[i].trace = <<>>)
         ~> (Len(hist) = i /\ Idle /\ TraceOf(hist[i].n, hist[i].trace))

\* a call simulate(n) with two 1 bits in n has returned
C23_Witness ==
  /\ Idle
  /\ Len(hist) >= 1
  /\ Last.op = "simulate"
  /\ CountOnes(Last.n) = 2
  /\ Len(Last.trace) = 3
  /\ Last.trace[2] = [ev |-> "clear", k |-> 0, new_k |-> 2]

\* step recurses from the node down to the nodes of level 4 without reaching
\* a leaf
RECURSIVE NeverStepsLeaf(_, _)
NeverStepsLeaf(s, node) ==
  /\ ~s[node].leaf
  /\ s[node].level > 4 =>
       /\ NeverStepsLeaf(s, s[node].nw) /\ NeverStepsLeaf(s, s[node].ne)
       /\ NeverStepsLeaf(s, s[node].sw) /\ NeverStepsLeaf(s, s[node].se)

\* every live cell of the universe is in the centred square of side 2 ^ (level - 2)
InCentralQuarter(u) ==
  \A c \in LiveCells(u) :
    /\ -Pow2[RootLevel(u) - 3 + 1] <= c[1] /\ c[1] < Pow2[RootLevel(u) - 3 + 1]
    /\ -Pow2[RootLevel(u) - 3 + 1] <= c[2] /\ c[2] < Pow2[RootLevel(u) - 3 + 1]

\* C24: when simulate comes to a root step, the root is at least two levels
\* above the root the iteration began with, it is an internal node of level
\* max(5, k + 3) or more, every live cell is in the centred square of side
\* 2 ^ (level - 2), the step reaches no leaf, and k < level - 2
C24_RootBeforeStep ==
  [][pc' = "step" =>
       /\ RootLevel(U') >= RootLevel(U) + 2
       /\ ~set'[root'].leaf
       /\ RootLevel(U') >= Max2(5, k' + 3)
       /\ InCentralQuarter(U')
       /\ NeverStepsLeaf(set', root')
       /\ k' < RootLevel(U') - 2]_vars

\* the second iteration of a simulate call is about to step, with k = 2, a
\* root with live cells
C24_Witness ==
  /\ pc = "step"
  /\ Len(Last.trace) = 2
  /\ k = 2
  /\ LiveCells(U) # {}

\* the four children of a stored internal node
Children(n) == {n.nw, n.ne, n.sw, n.se}

\* C26: every stored internal node has four children in the store, all of
\* the level one below its own (leaves for a node of level 4), whichever of
\* set, expand, shrink, find_empty_node and the two branches of step made it
C26_ChildLevels ==
  \A i \in 1..Len(set) :
    ~set[i].leaf =>
      /\ set[i].level >= 4
      /\ \A c \in Children(set[i]) :
           c \in 1..Len(set) /\ LevelOf(set, c) = set[i].level - 1

\* set, then simulate(2 ^ MaxK), whose step takes the full branch on the
\* nodes one level below the root and the partial branch on the root, have
\* returned on a universe with live cells, with empty nodes registered and
\* the root shrunk
C26_Witness ==
  /\ Idle
  /\ Len(hist) >= 2
  /\ hist[Len(hist) - 1].op = "set"
  /\ Last.op = "simulate"
  /\ Last.n = Pow2[MaxK + 1]
  /\ LiveCells(Last.before) # {}
  /\ Len(empty_nodes) > 5
  /\ RootLevel(U) < MaxK + 3
  /\ \E i \in 1..Len(set) : set[i].level = MaxK + 2 /\ set[i].result # INVALID_NODE_ID

\* the twelve grandchildren of the root that do not touch its centre
OuterGrandchildren(s, rt) ==
  { s[s[rt].nw].nw, s[s[rt].nw].ne, s[s[rt].nw].sw,
    s[s[rt].ne].nw, s[s[rt].ne].ne, s[s[rt].ne].se,
    s[s[rt].sw].nw, s[s[rt].sw].sw, s[s[rt].sw].se,
    s[s[rt].se].ne, s[s[rt].se].sw, s[s[rt].se].se }

\* the root replaced by the node of its four innermost grandchildren
Halved(u) ==
  set_root(find_internal(u, InternalKey(u.set[u.set[u.root].nw].se, u.set[u.set[u.root].ne].sw,
                                        u.set[u.set[u.root].sw].ne, u.set[u.set[u.root].se].nw)))

\* the root halved until it has level 4 or one of its twelve outer
\* grandchildren holds a live cell
RECURSIVE HalvedWhileRingDead(_)
HalvedWhileRingDead(u) ==
  IF RootLevel(u) = 4 \/ \E g \in OuterGrandchildren(u.set, u.root) : ~Dead(u.set, g)
  THEN u
  ELSE HalvedWhileRingDead(Halved(u))

\* C28: the shrink that simulate calls after a root step keeps the live
\* cells, replaces the root by the node of its four innermost grandchildren
\* each time, and stops exactly when the root has level 4 or one of its
\* twelve outer grandchildren holds a live cell
C28_ShrinkStops ==
  pc = "shrink" =>
    /\ LiveCells(shrink(U)) = LiveCells(U)
    /\ shrink(U) = HalvedWhileRingDead(U)

\* simulate is about to shrink a root, and shrink halves it and stops above
\* level 4 at a root with a live cell in an outer grandchild
C28_Witness ==
  /\ pc = "shrink"
  /\ shrink(U).root # root
  /\ RootLevel(shrink(U)) > 4
  /\ \E g \in OuterGrandchildren(shrink(U).set, shrink(U).root) : ~Dead(shrink(U).set, g)

\* the last call was step(root, k) on a root of the given level
StepCalled(level) ==
  /\ Len(hist) >= 1
  /\ Last.op = "step"
  /\ RootLevel(Last.before) = level

\* the cells of the node step returned
Returned == NodeCells(set, Last.id, 0, 0)

\* C21: step(node, k) on a level-4 node with no cached result returns the
\* leaf whose cells are the centred 8 x 8 square of the node after 1
\* generation for k = 0, 2 generations for k = 1 and 4 generations for
\* k >= 2, and stores it in the node's result slot
C21_LeafStep ==
  (StepCalled(4) /\ Last.before.set[Last.before.root].result = INVALID_NODE_ID) =>
    /\ set[Last.id].leaf
    /\ Returned = CentreAfter(Last.before, Last.before.root,
                              IF Last.k = 0 THEN 1 ELSE IF Last.k = 1 THEN 2 ELSE 4)
    /\ set[Last.before.root].result = Last.id

\* step(node, 2) on a level-4 node without a result, whose cells after 4
\* generations are not those after 2
C21_Witness ==
  /\ StepCalled(4)
  /\ Last.before.set[Last.before.root].result = INVALID_NODE_ID
  /\ Last.k = 2
  /\ Returned # {}
  /\ Returned # CentreAfter(Last.before, Last.before.root, 2)

\* no node of the store has a cached result
NoCached(u) == \A i \in 1..Len(u.set) : u.set[i].result = INVALID_NODE_ID

\* C22: with no cached result in the store, step(node, k) on a node of level
\* L >= 5 returns a node of level L - 1 whose cells are the centred square
\* of side 2 ^ (L - 1) of the node after 2 ^ min(k, L - 2) generations, and
\* stores it in the node's result slot
C22_InternalStep ==
  \A L \in 5..16 :
    (StepCalled(L) /\ NoCached(Last.before)) =>
      /\ LevelOf(set, Last.id) = L - 1
      /\ Returned = CentreAfter(Last.before, Last.before.root, Pow2[Min2(Last.k, L - 2) + 1])
      /\ set[Last.before.root].result = Last.id

\* step(node, 3) on a level-5 node, which takes the second pass, in a store
\* without results; the cells after 8 generations are not those after 4
C22_Witness ==
  /\ StepCalled(5)
  /\ NoCached(Last.before)
  /\ Last.k = 3
  /\ Returned # {}
  /\ Returned # CentreAfter(Last.before, Last.before.root, 4)

\* C25: clear_results(k_old, k_new) sets the result slot of the stored
\* internal nodes with k_old < level - 2 <= k_new to INVALID_NODE_ID and
\* leaves every other result, every key and level, the root and empty_nodes
\* as they were
C25_ClearResultsFrame ==
  (Len(hist) >= 1 /\ Last.op = "clear") =>
    /\ Len(set) = Len(Last.before.set)
    /\ \A i \in 1..Len(set) :
         set[i] = IF /\ ~Last.before.set[i].leaf
                     /\ Last.k < Last.before.set[i].level - 2
                     /\ Last.before.set[i].level - 2 <= Last.new_k
                  THEN [Last.before.set[i] EXCEPT !.result = INVALID_NODE_ID]
                  ELSE Last.before.set[i]
    /\ root = Last.before.root
    /\ empty_nodes = Last.before.empty_nodes
    /\ rule = Last.before.rule

\* a clear_results call that cleared a result and kept one of a node of a
\* lower level and one of a node of a higher level
C25_Witness ==
  /\ Len(hist) >= 1
  /\ Last.op = "clear"
  /\ \E i, lo, hi \in 1..Len(set) :
       /\ Last.before.set[i].result # INVALID_NODE_ID /\ set[i].result = INVALID_NODE_ID
       /\ set[lo].result # INVALID_NODE_ID /\ set[hi].result # INVALID_NODE_ID
       /\ ~set[lo].leaf /\ set[lo].level < set[i].level /\ set[i].level < set[hi].level

\* C27: expand makes the root a node one level above the old root and keeps
\* the live cells where they are: the new root is an internal node whose
\* centred half-side square holds the cells of the old root, a leaf or an
\* internal node, and the ring around it is dead
C27_ExpandFrame ==
  (Len(hist) >= 1 /\ Last.op = "expand") =>
    /\ ~set[root].leaf
    /\ RootLevel(U) = RootLevel(Last.before) + 1
    /\ LiveCells(U) = LiveCells(Last.before)
    /\ \A c \in LiveCells(U) :
         /\ -Radius(Last.before) <= c[1] /\ c[1] < Radius(Last.before)
         /\ -Radius(Last.before) <= c[2] /\ c[2] < Radius(Last.before)
    /\ IF set[Last.before.root].leaf
       THEN /\ set[set[root].nw].se = set[Last.before.root].nw
            /\ set[set[root].ne].sw = set[Last.before.root].ne
            /\ set[set[root].sw].ne = set[Last.before.root].sw
            /\ set[set[root].se].nw = set[Last.before.root].se
       ELSE /\ Halved(U).root = Last.before.root
            /\ \A g \in OuterGrandchildren(set, root) : Dead(set, g)

\* expand of a leaf root with live cells, then expand of the internal root
\* it gave
C27_Witness ==
  /\ Len(hist) = 2
  /\ hist[1].op = "expand"
  /\ Last.op = "expand"
  /\ hist[1].before.set[hist[1].before.root].leaf
  /\ LiveCells(hist[1].before) # {}
  /\ ~Last.before.set[Last.before.root].leaf

\* C29 as stated: after set(x, y, alive), |x| and |y| are below
\* 2 ^ (root.level - 1)
C29_SetInsideAsStated ==
  (Len(hist) >= 1 /\ Last.op = "set") =>
    /\ -Radius(U) < Last.x /\ Last.x < Radius(U)
    /\ -Radius(U) < Last.y /\ Last.y < Radius(U)

\* C29, amended: after set(x, y, alive), x and y are in the half-open range
\* from -2 ^ (root.level - 1) up to, but not, 2 ^ (root.level - 1): set
\* expands while x or y is outside it, so the cell is in the square the root
\* covers, whose west and north edges are at -2 ^ (root.level - 1)
C29_SetInside ==
  (Len(hist) >= 1 /\ Last.op = "set") =>
    /\ -Radius(U) <= Last.x /\ Last.x < Radius(U)
    /\ -Radius(U) <= Last.y /\ Last.y < Radius(U)
    /\ RootLevel(U) > RootLevel(Last.before) =>
         \/ Last.x < -Radius(U) \div 2 \/ Last.x >= Radius(U) \div 2
         \/ Last.y < -Radius(U) \div 2 \/ Last.y >= Radius(U) \div 2

\* a set on the west edge of the root, which does not expand, then a set
\* outside the root, which expands twice
C29_Witness ==
  /\ Len(hist) = 2
  /\ hist[1].op = "set"
  /\ hist[1].x = -Radius(hist[1].before)
  /\ RootLevel(hist[2].before) = RootLevel(hist[1].before)
  /\ Last.op = "set"
  /\ RootLevel(U) = RootLevel(Last.before) + 2

\* 1 if the cell c is alive one generation after `cells`, else 0
AliveNext(r, cells, c) ==
  Bit(IF c \in cells THEN r.survival ELSE r.birth, Cardinality(Neighbours(c) \cap cells))

\* C30: level2_results[i], with i read as a row-major 4 x 4 square (bit 15
\* the top-left cell, bit 0 the bottom-right one), is NW<<5 | NE<<4 | SW<<1
\* | SE for the four centre cells one generation on under the rule's birth
\* and survival masks; bits 7, 6, 3 and 2 are zero
C30_Level2Results ==
  (Len(hist) >= 1 /\ Last.op = "level2") =>
    /\ Last.result
         = AliveNext(Last.before, QuadCells(Last.i, 0, 0), <<1, 1>>) * 32
           + AliveNext(Last.before, QuadCells(Last.i, 0, 0), <<2, 1>>) * 16
           + AliveNext(Last.before, QuadCells(Last.i, 0, 0), <<1, 2>>) * 2
           + AliveNext(Last.before, QuadCells(Last.i, 0, 0), <<2, 2>>)
    /\ \A b \in {2, 3, 6, 7} : Bit(Last.result, b) = 0
    /\ Last.result < 256

\* the first entry test_level2_result reads, of the table of a rule that a
\* call of set_survival has made the Game of Life
C30_Witness ==
  /\ Len(hist) = 2
  /\ hist[1].op = "set_survival"
  /\ Last.op = "level2"
  /\ Last.before = GAME_OF_LIFE
  /\ Last.i = 1732
  /\ Last.result = 48

-----------------------------------------------------------------------------
\* C31: every leaf of the store carries as results[0] the centre 4x4 cells
\* of its 8x8 cells after exactly one generation and as results[1] the
\* centre 4x4 cells after exactly two generations, bit 15 being the top-left
\* cell of the 4x4 and the bits running row by row
C31_LeafResults ==
  \A i \in 1..Len(set) :
    set[i].leaf =>
      /\ QuadCells(set[i].results[1], -2, -2) = CentreAfter(U, i, 1)
      /\ QuadCells(set[i].results[2], -2, -2) = CentreAfter(U, i, 2)

\* the first leaf of test_level3_result1 has been interned under a rule a
\* setter has changed to B3/S23, with the results the tests expect
C31_Witness ==
  /\ Len(hist) = 2
  /\ hist[1].op \in {"set_birth", "set_survival"}
  /\ Last.op = "level3"
  /\ rule = GAME_OF_LIFE
  /\ Last.key = LeafKey(1, 8, 12544, 0)
  /\ set[Last.id].results = <<3724, 19500>>
  /\ CentreAfter(U, Last.id, 1) # CentreAfter(U, Last.id, 2)

-----------------------------------------------------------------------------
\* C32: in every state, a cached result of an internal node of level L that
\* is not INVALID_NODE_ID is the handle of a node of the store whose level
\* is exactly L - 1, whatever k the step that cached it was made with
C32_ResultLevel ==
  \A i \in 1..Len(set) :
    (~set[i].leaf /\ set[i].result # INVALID_NODE_ID) =>
      /\ set[i].result \in 1..Len(set)
      /\ LevelOf(set, set[i].result) = set[i].level - 1

\* simulate is about to step with k = 1 after a step with k = 0 whose
\* results are still cached: a node with live cells of level 5 or more holds
\* a result with live cells
C32_Witness ==
  /\ pc = "step"
  /\ k = 1
  /\ Len(Last.trace) = 2
  /\ Last.trace[1].ev = "step"
  /\ Last.trace[1].k = 0
  /\ \E i \in 1..Len(set) :
       /\ ~set[i].leaf
       /\ set[i].level >= 5
       /\ set[i].result # INVALID_NODE_ID
       /\ NodeCells(set, set[i].result, 0, 0) # {}

-----------------------------------------------------------------------------
\* the level has an entry in empty_nodes
Registered(L) == 3 <= L /\ L < Len(empty_nodes)

\* C33: for every level L with 3 <= L < len(empty_nodes), empty_nodes[L] is
\* a node of the store of level L with no live cell, whose four children,
\* for L >= 4, are empty_nodes[L - 1]; and a node of the store of such a
\* level has no live cell only if it is empty_nodes[L], so that comparing a
\* handle with empty_nodes[level] finds every all-dead node of the level
C33_EmptyNodesCanonical ==
  /\ \A L \in 3..(Len(empty_nodes) - 1) :
       /\ empty_nodes[L + 1] \in 1..Len(set)
       /\ LevelOf(set, empty_nodes[L + 1]) = L
       /\ Dead(set, empty_nodes[L + 1])
       /\ L >= 4 => Children(set[empty_nodes[L + 1]]) = {empty_nodes[L]}
  /\ \A i \in 1..Len(set) :
       (Registered(LevelOf(set, i)) /\ Dead(set, i)) =>
         i = empty_nodes[LevelOf(set, i) + 1]

\* set(x, y, true) on a dead cell followed by set(x, y, false), where the
\* cell was the only live one of a node of level 4 and level 4 has an entry
\* in empty_nodes: the second call looked the all-dead node of level 4 up
\* by its key
C33_Witness ==
  /\ Len(hist) = 2
  /\ AllOp(1, 2, "set")
  /\ hist[1].alive /\ ~hist[2].alive
  /\ hist[1].x = hist[2].x /\ hist[1].y = hist[2].y
  /\ <<hist[1].x, hist[1].y>> \notin LiveCells(hist[1].before)
  /\ LiveCells(U) = LiveCells(hist[1].before)
  /\ Registered(4)
  /\ \E i \in 1..Len(hist[2].before.set) :
       /\ LevelOf(hist[2].before.set, i) = 4
       /\ i \notin 1..Len(hist[1].before.set)
       /\ Cardinality(NodeCells(hist[2].before.set, i, 0, 0)) = 1

-----------------------------------------------------------------------------
\* write_buffer of the crate has been called on a universe with a live cell
Exported(crate) ==
  /\ Len(hist) >= 1
  /\ Last.op = "write_buffer"
  /\ Last.crate = crate
  /\ LiveCells(Last.before) # {}

\* the rows are those of the boundary b = <<left, top, right, bottom>>, of
\* ceil((right - left) / 8) bytes each, and bit 7 - o of byte j of row r is
\* 1 exactly when the cell (left + 8 * j + o, top + r) is among the cells
Packs(buffer, cells, b) ==
  /\ Len(buffer) = b[4] - b[2]
  /\ \A r \in 1..Len(buffer) :
       /\ Len(buffer[r]) = (b[3] - b[1] + 7) \div 8
       /\ \A j \in 1..Len(buffer[r]) :
            /\ buffer[r][j] \in 0..255
            /\ \A o \in 0..7 :
                 Bit(buffer[r][j], 7 - o) = 1
                   <=> <<b[1] + 8 * (j - 1) + o, b[2] + r - 1>> \in cells

\* C34: on a universe with a live cell, write_buffer of algo/src/export.rs
\* indexes nothing outside the buffer and returns bottom - top rows of
\* ceil((right - left) / 8) bytes, in which bit 7 - ((x - left) mod 8) of
\* byte (x - left) div 8 of row y - top is 1 exactly when cell (x, y) is
\* live, whether the root is a leaf or not and whatever left is modulo 8
C34_WriteBufferPacks ==
  Exported("algo") =>
    /\ ~Last.out.panic
    /\ Packs(Last.out.buffer, LiveCells(Last.before), boundary(Last.before))

\* an export of a universe whose root is a leaf, with left = -3, and of one
\* whose root is an internal node, with left = -13 and more than one byte in
\* a row
C34_Witness ==
  /\ Exported("algo")
  /\ set[root].leaf
  /\ boundary(U)[1] = -3
  /\ Cardinality(LiveCells(U)) >= 2

C34_WitnessInternal ==
  /\ Exported("algo")
  /\ ~set[root].leaf
  /\ boundary(U)[1] = -13
  /\ boundary(U)[3] - boundary(U)[1] > 8
  /\ Len(Last.out.buffer) >= 2

-----------------------------------------------------------------------------
\* C36: write_buffer, of either crate, called on a universe with no live
\* cell fails with the message "empty" and with no buffer made, and the root,
\* the store with its cached results and empty_nodes are as before the call
C36_WriteBufferEmpty ==
  (Len(hist) >= 1 /\ Last.op = "write_buffer" /\ LiveCells(Last.before) = {}) =>
    /\ pc = "panic"
    /\ Last.out = [panic |-> TRUE, msg |-> "empty"]
    /\ U = Last.before

\* write_buffer of algo/src/export.rs called on a universe whose root is an
\* internal node with no live cell, which is in no entry of empty_nodes
C36_Witness ==
  /\ Len(hist) = 2
  /\ Last.op = "write_buffer"
  /\ Last.crate = "algo"
  /\ hist[1].op = "set"
  /\ ~set[root].leaf
  /\ \A L \in 1..Len(empty_nodes) : empty_nodes[L] # root
  /\ LiveCells(U) = {}
  /\ pc = "panic"

-----------------------------------------------------------------------------
\* rle::write has returned a text
Written == Len(hist) >= 1 /\ Last.op = "write" /\ ~Last.out.panic

\* the position of the newline that ends the header
HeaderEnd(t) == CHOOSE p \in 1..Len(t) : t[p] = "\n" /\ \A q \in 1..(p - 1) : t[q] # "\n"

\* the characters of the longest line after the header
LongestLine(t) ==
  LET ends == {p \in HeaderEnd(t)..Len(t) : t[p] = "\n"}
  IN  IF Cardinality(ends) < 2 THEN 0
      ELSE LET len(p) == (CHOOSE q \in ends : q > p /\ \A r \in ends : r > p => q <= r) - p - 1
           IN  CHOOSE m \in {len(p) : p \in {e \in ends : \E q \in ends : q > e}} :
                 \A p \in {e \in ends : \E q \in ends : q > e} : len(p) <= m

\* C35: the text rle::write returns ends with '!' followed by a newline, and
\* no line of it after the header line has more than 71 characters
C35_WriteLines ==
  Written =>
    /\ Len(Last.out.text) >= 2
    /\ SubSeq(Last.out.text, Len(Last.out.text) - 1, Len(Last.out.text)) = <<"!", "\n">>
    /\ \A i \in (HeaderEnd(Last.out.text) + 1)..(Len(Last.out.text) - 71) :
         \E j \in i..(i + 71) : Last.out.text[j] = "\n"

\* a text of three or more lines after the header, one of them of 69
\* characters or more
C35_Witness ==
  /\ Written
  /\ Cardinality({p \in 1..Len(Last.out.text) : Last.out.text[p] = "\n"}) >= 4
  /\ LongestLine(Last.out.text) >= 69

-----------------------------------------------------------------------------
\* the last two calls are set(x, y, true) and set(x, y, false) on a cell that
\* was dead and inside the root before the first of them
SetThenCleared ==
  /\ Idle
  /\ Len(hist) >= 2
  /\ hist[Len(hist) - 1].op = "set" /\ Last.op = "set"
  /\ hist[Len(hist) - 1].alive /\ ~Last.alive
  /\ hist[Len(hist) - 1].x = Last.x /\ hist[Len(hist) - 1].y = Last.y
  /\ <<Last.x, Last.y>> \notin LiveCells(hist[Len(hist) - 1].before)
  /\ -Radius(hist[Len(hist) - 1].before) <= Last.x
  /\ Last.x < Radius(hist[Len(hist) - 1].before)
  /\ -Radius(hist[Len(hist) - 1].before) <= Last.y
  /\ Last.y < Radius(hist[Len(hist) - 1].before)

\* C37: if the cell (x, y) is dead and inside the root, set(x, y, true)
\* followed by set(x, y, false) leaves the root handle the universe had
\* before the two calls, denoting the same node, and the second call adds no
\* node to the store
C37_SetClearRestoresRoot ==
  SetThenCleared =>
    /\ root = hist[Len(hist) - 1].before.root
    /\ Immutable(set[root]) = Immutable(hist[Len(hist) - 1].before.set[root])
    /\ Len(set) = Len(Last.before.set)
    /\ set = Last.before.set

\* the two calls made on an internal root, the first of which changed the
\* root handle and added nodes
C37_Witness ==
  /\ SetThenCleared
  /\ ~set[root].leaf
  /\ Last.before.root # root
  /\ Len(Last.before.set) > Len(hist[Len(hist) - 1].before.set)
  /\ LiveCells(U) # {}
=============================================================================
